---- MODULE Spec2Model ----
(***************************************************************************)
(* A model of the logrus Graylog hook.                                     *)
(*                                                                         *)
(*   - the Hook of graylog_hook.go (RWMutex + WaitGroup, synchronous or    *)
(*     asynchronous): Fire, Flush, fire, sendEntry;                        *)
(*   - the closeChan/timeout Hook (graylog_hook_test.go, lines 470-713):   *)
(*     FireCC, FlushCC, fireCC.                                            *)
(*                                                                         *)
(* Goroutines call Fire and Flush; one background worker runs fire.  Every *)
(* blocking primitive (RLock, Lock, WaitGroup.Wait, channel send/receive,  *)
(* select) is one atomic step whose guard is the primitive's readiness.    *)
(***************************************************************************)
EXTENDS Bags, Integers, Sequences, FiniteSets, TLC

\* ------------------------------------------------------------------ bounds
NumGoroutines == 2      \* goroutines that call Fire / Flush
MaxCalls == 3           \* Fire calls per behaviour (entry ids 1..MaxCalls)
MaxFlush == 2           \* Flush calls per behaviour
BufSize == 1            \* Options.BufSize, the capacity of hook.buf
MaxWriteErrors == 1     \* WriteMessage failures per behaviour
Timeout == 2            \* Options.Timeout, in clock ticks
MaxDataCalls == 1       \* Fire calls per behaviour when the field data varies
MaxTextLen == 3         \* characters of a message text
MaxGets == 3            \* Get calls on the compression pool per behaviour

Goroutines == 1..NumGoroutines

\* ------------------------------------------------------------- field data
\* logrus.Fields: a map from field names to values (a function on a finite
\* set of names).
EmptyFields == [k \in {} |-> "0"]

FieldNames == {"withField", "filterMe"}

FieldValues == {"1", "2"}

AllFields == UNION {[D -> FieldValues] : D \in SUBSET FieldNames}

VARIABLES
    options,        \* hook.options: [Extra, Blacklist]
    blacklist,      \* hook.blacklist (graylog_hook.go only)
    synchronous,    \* hook.synchronous
    gelfLogger,     \* hook.gelfLogger: "nil" or "writer"
    buf,            \* hook.buf: the queued graylogEntry values, oldest first
    closed,         \* hook.buf has been closed
    closeChan,      \* hook.closeChan has been closed (closeChan hook only)
    wg,             \* hook.wg counter
    mu,             \* hook.mu: [readers, writer]
    pc,             \* position of each calling goroutine
    cur,            \* the graylogEntry a goroutine's Fire has built
    timer,          \* ticks since a goroutine's select started (time.After)
    wpc,            \* position of the background worker (fire)
    wcur,           \* the entry the worker has received
    callerData,     \* the caller's entry.Data map, per goroutine
    entryData,      \* the newData maps allocated by Fire, per entry id
    calls,          \* history: one record per Fire call
    accepted,       \* history: entry ids in the order their send completed
    sent,           \* history: [id, outcome] in the order sendEntry completed
    written,        \* history: the Messages handed to WriteMessage
    flushes,        \* history: one record per Flush call
    writeErrors,    \* history: WriteMessage failures so far
    cp,             \* the compressionPool: <<>> for nil, else <<[compressType, compressionLevel]>>
    pool,           \* cp.p, the sync.Pool: the writers that are idle in it
    zw,             \* the buffer each compressor created so far writes to
    bpc,            \* position of each goroutine borrowing from the pool
    bw,             \* the writer a borrower got from Get (0: none)
    bbuf,           \* the buffer a borrower passed to Get (0: none)
    gets,           \* Get calls so far; the buffer of call n is buffer n
    out,            \* history: one record per Write on a borrowed writer
    udpWrites,      \* history: one record per WriteMessage on the UDP writer
    net,            \* the datagrams sent and not received yet
    table,          \* the reader's reassembly table: message id -> pending entry
    delivered,      \* the payloads the reader has delivered, with their counts
    evicted,        \* history: the message ids whose entry the sweep removed
    errChain,       \* the error given to extractStackTrace: its nodes, <<>> for nil
    errBack,        \* the node the last node of errChain links to (0: nil)
    errAt,          \* err, the node the loop of extractStackTrace is at (0: nil)
    asAt,           \* the node errors.As is looking at (0: nil)
    tracerAt,       \* tracer, the node last found to carry a stack trace (0: nil)
    spc,            \* position of the call of extractStackTrace
    stResult,       \* what extractStackTrace returned
    now             \* time.Now(), the wall clock, in ticks

\* The state of the compression pool and its borrowers.
poolVars == <<cp, pool, zw, bpc, bw, bbuf, gets, out>>

\* The state of the UDP writer, the network and the reader.
udpVars == <<udpWrites, net, table, delivered, evicted>>

\* The state of a call of extractStackTrace.
walkVars == <<errChain, errBack, errAt, asAt, tracerAt, spc, stResult>>

\* What the steps of the hook and of the pool leave alone.
otherVars == <<udpVars, walkVars>>

vars == <<options, blacklist, synchronous, gelfLogger, buf, closed, closeChan,
          wg, mu, pc, cur, timer, wpc, wcur, callerData, entryData, calls,
          accepted, sent, written, flushes, writeErrors, poolVars, otherVars, now>>

\* ------------------------------------------------------------- helpers
\* An assignment that leaves an existing key alone.
PutIfAbsent(f, k, v) == [x \in DOMAIN f \cup {k} |-> IF x \in DOMAIN f THEN f[x] ELSE v]

\* m[k] = v on a Go map: a new key is added, an existing one is overwritten.
Put(f, k, v) == [x \in DOMAIN f \cup {k} |-> IF x = k THEN v ELSE f[x]]

\* Every order in which a range loop may visit the keys of a map.
Orders(S) == {o \in [1..Cardinality(S) -> S] : \A i, j \in 1..Cardinality(S) : o[i] = o[j] => i = j}

Ids(log) == {log[i].id : i \in 1..Len(log)}

\* -------------------------------------------------------- message text
Whitespace == {" ", "\n", "\t"}

RECURSIVE TrimLeft(_)
TrimLeft(s) == IF s # <<>> /\ Head(s) \in Whitespace THEN TrimLeft(Tail(s)) ELSE s

RECURSIVE TrimRight(_)
TrimRight(s) ==
    IF s # <<>> /\ s[Len(s)] \in Whitespace THEN TrimRight(SubSeq(s, 1, Len(s) - 1)) ELSE s

\* bytes.TrimSpace
TrimSpace(s) == TrimRight(TrimLeft(s))

\* bytes.IndexRune(p, '\n'): the 0-based index of the first newline, or -1
IndexNewline(p) ==
    IF \E i \in 1..Len(p) : p[i] = "\n"
    THEN (CHOOSE i \in 1..Len(p) : p[i] = "\n" /\ \A j \in 1..(i - 1) : p[j] # "\n") - 1
    ELSE -1

ShortOf(msg) ==
    LET p == TrimSpace(msg)
        i == IndexNewline(p)
    IN  IF i > 0 THEN SubSeq(p, 1, i) ELSE p

FullOf(msg) ==
    LET p == TrimSpace(msg)
        i == IndexNewline(p)
    IN  IF i > 0 THEN p ELSE <<>>

\* ------------------------------------------------------ entries, fields
\* The syslog severity the tests expect of an Info entry.
SyslogInfoLevel == 6

\* logrus.InfoLevel: "logrus levels are lower than syslog by 2"
InfoLevel == SyslogInfoLevel - 2

ErrorLevel == InfoLevel - 2

PanicLevel == ErrorLevel - 2

FatalLevel == ErrorLevel - 1

WarnLevel == ErrorLevel + 1

DebugLevel == InfoLevel + 1

TraceLevel == InfoLevel + 2

\* logrus.AllLevels
AllLevels == <<PanicLevel, FatalLevel, ErrorLevel, WarnLevel, InfoLevel, DebugLevel,
               TraceLevel>>

NoEntry == [id |-> 0]

\* The map an entry's Data field refers to: a map allocated by Fire, or the
\* caller's own map.
Deref(ref) == IF ref.kind = "clone" THEN entryData[ref.at] ELSE callerData[ref.at]

\* Fire passes the caller's map on instead of the copy.
newDataAliased(g, id) == [kind |-> "caller", at |-> g]

\* newData := make(map[string]interface{}): a reference to a fresh map
newData(g, id) == [kind |-> "clone", at |-> id]

\* The frames of goroutine g's stack while Fire runs getCaller, innermost
\* first: getCaller, getCallerIgnoringLogMulti, Fire, the logger's frames,
\* the log call of the application and the runtime.
FireStack(g) ==
    <<[file |-> "graylog_hook.go", line |-> 272],
      [file |-> "graylog_hook.go", line |-> 292],
      [file |-> "graylog_hook.go", line |-> 117],
      [file |-> "github.com/sirupsen/logrus/hooks.go", line |-> 28],
      [file |-> "github.com/sirupsen/logrus/entry.go", line |-> 272],
      [file |-> "github.com/sirupsen/logrus/entry.go", line |-> 241],
      [file |-> "github.com/sirupsen/logrus/logger.go", line |-> 200],
      [file |-> "main.go", line |-> 10 + g],
      [file |-> "runtime/proc.go", line |-> 250],
      [file |-> "runtime/asm_amd64.s", line |-> 1594]>>

\* The frames of the worker's stack, were getCaller run from sendEntry.
WorkerStack ==
    <<[file |-> "graylog_hook.go", line |-> 272],
      [file |-> "graylog_hook.go", line |-> 292],
      [file |-> "graylog_hook.go", line |-> 167],
      [file |-> "graylog_hook.go", line |-> 161],
      [file |-> "runtime/asm_amd64.s", line |-> 1594]>>

suffixesToIgnore == {"logrus/hooks.go", "logrus/entry.go", "logrus/logger.go",
                     "logrus/exported.go", "asm_amd64.s"}

\* strings.HasSuffix(file, s), over the directories the frames come from
HasSuffix(file, s) ==
    \E pre \in {"", "github.com/sirupsen/", "runtime/"} : file = pre \o s

\* The loop of getCaller from callDepth on: runtime.Caller(callDepth) is the
\* frame callDepth above getCaller's own; frames of ignored files are
\* skipped, and "???" and 0 are returned beyond the end of the stack.
RECURSIVE getCallerFrom(_, _)
getCallerFrom(stack, callDepth) ==
    IF callDepth + 1 > Len(stack) THEN [file |-> "???", line |-> 0]
    ELSE IF \E s \in suffixesToIgnore : HasSuffix(stack[callDepth + 1].file, s)
    THEN getCallerFrom(stack, callDepth + 1)
    ELSE stack[callDepth + 1]

\* getCaller(callDepth, suffixesToIgnore...): callDepth is bumped by 1 to
\* ignore getCaller's own frame.
getCaller(stack, callDepth) == getCallerFrom(stack, callDepth + 1)

\* The file and line computed by the worker, from its own stack.
getCallerInWorker(g) == getCaller(WorkerStack, 1 + 1)

\* getCallerIgnoringLogMulti(1), called by Fire on goroutine g's stack
getCallerIgnoringLogMulti(g) == getCaller(FireStack(g), 1 + 1)

\* ------------------------------------------------------- error values
\* logrus.ErrorKey, the field name WithError stores its error under
ErrorKey == "error"

stackTraceKey == "_stacktrace"

\* The error values a field may hold, named by how they were built.  A value
\* is a chain of nodes, outermost first; each node but the last wraps the next.
ErrorValues == {"errPlain", "errStack", "errWrapStack", "errStackPlain",
                "errStackStack", "errMsgPlain", "errJSON"}

Chain(v) ==
    CASE v = "errPlain"      -> <<"errorString">>
      [] v = "errStack"      -> <<"fundamental">>
      [] v = "errWrapStack"  -> <<"wrapError", "fundamental">>
      [] v = "errStackPlain" -> <<"withStack", "errorString">>
      [] v = "errStackStack" -> <<"withStack", "fundamental">>
      [] v = "errMsgPlain"   -> <<"withMessage", "errorString">>
      [] v = "errJSON"       -> <<"jsonError">>
      [] OTHER               -> <<>>

\* v.(error)
IsError(v) == v \in ErrorValues

\* v.(json.Marshaler)
IsMarshaler(v) == IsError(v) /\ Chain(v)[1] = "jsonError"

\* The node kinds that implement stackTracer, causer and Unwrap: those of
\* pkg/errors and fmt.Errorf, a type of the caller's with StackTrace() and
\* Unwrap() but no Cause() ("tracedWrap"), and one with Cause() but no
\* Unwrap() ("causeOnly").
stackTracer == {"fundamental", "withStack", "tracedWrap"}

causer == {"withStack", "withMessage", "causeOnly"}

IsTracer(kind) == kind \in stackTracer

HasUnwrap(kind) == kind \in {"withStack", "withMessage", "wrapError", "tracedWrap"}

\* err.Error(): a wrapper with a message prefixes it to the text of what it
\* wraps; the other wrappers pass the text on.
RECURSIVE ErrorText(_)
ErrorText(c) ==
    IF c = <<>> THEN ""
    ELSE IF Head(c) = "withMessage" THEN "context: " \o ErrorText(Tail(c))
    ELSE IF Head(c) \in {"withStack", "wrapError"} THEN ErrorText(Tail(c))
    ELSE "sample error"

\* The StackTrace() of the node at depth i of an error: innermost frame first.
StackTraceAt(i) ==
    <<[fn |-> "newError", file |-> "service.go", line |-> 100 + i],
      [fn |-> "main", file |-> "main.go", line |-> 1]>>

\* errors.As(err, &target) from node i of chain c: the first node, following
\* Unwrap, whose kind is one of those that have the target's type; 0 when
\* there is none.
As(c, i, kinds) ==
    LET hits == {j \in i..Len(c) : c[j] \in kinds /\ \A m \in i..(j - 1) : HasUnwrap(c[m])}
    IN  IF hits = {} THEN 0 ELSE CHOOSE j \in hits : \A h \in hits : j <= h

\* The loop of extractStackTrace stopped after its first round: the
\* outermost tracer, the causes not followed.
TracerOfFirstRound(c, i, tracer) == As(c, i, stackTracer)

\* The loop of extractStackTrace from node i: the depth of the last tracer
\* found (0: none), following Cause() while there is a causer.
RECURSIVE TracerOf(_, _, _)
TracerOf(c, i, tracer) ==
    LET st == As(c, i, stackTracer)
        t == IF st # 0 THEN st ELSE tracer
        cause == As(c, i, causer)
    IN  IF cause # 0 /\ cause < Len(c) THEN TracerOf(c, cause + 1, t) ELSE t

\* extractStackTrace(asError): the stack trace, <<>> for nil
extractStackTrace(v) ==
    LET t == IF IsError(v) THEN TracerOf(Chain(v), 1, 0) ELSE 0
    IN  IF t = 0 THEN <<>> ELSE StackTraceAt(t)

\* extractFileAndLine(stackTrace): file and line of the innermost frame
extractFileAndLine(stackTrace) ==
    IF stackTrace = <<>> THEN [file |-> "", line |-> 0]
    ELSE [file |-> stackTrace[1].file, line |-> stackTrace[1].line]

\* fmt.Sprintf("%+v", stackTrace)
RECURSIVE FormatStackTrace(_)
FormatStackTrace(st) ==
    IF st = <<>> THEN ""
    ELSE "\n" \o Head(st).fn \o "\n\t" \o Head(st).file \o ":" \o ToString(Head(st).line)
         \o FormatStackTrace(Tail(st))

\* newMarshalableError(err): the wrapper around an error
newMarshalableError(v) == "marshalableError(" \o v \o ")"

\* json.Marshal of a value of Extra: the wrapper encodes the text of its
\* error, an error with MarshalJSON encodes itself, any other error is a
\* struct without exported fields, and a string is quoted.
MarshalJSON(x) ==
    IF \E v \in ErrorValues : x = newMarshalableError(v)
    THEN "\"" \o ErrorText(Chain(CHOOSE v \in ErrorValues : x = newMarshalableError(v))) \o "\""
    ELSE IF IsMarshaler(x) THEN "{\"msg\":\"" \o ErrorText(Chain(x)) \o "\"}"
    ELSE IF IsError(x) THEN "{}"
    ELSE "\"" \o x \o "\""

\* The value sendEntry stores for the field k of entry.Data
ExtraValue(k, v) ==
    IF k = ErrorKey /\ IsError(v) /\ ~IsMarshaler(v) THEN newMarshalableError(v) ELSE v

\* The loop over entry.Data of sendEntry, visiting the keys in `order`;
\* bl is the set of names the hook's blacklist lookup answers true for.
RECURSIVE MergeData(_, _, _, _)
MergeData(extra, data, bl, order) ==
    IF order = <<>> THEN extra
    ELSE LET k == Head(order)
             e == Put(extra, "_" \o k, ExtraValue(k, data[k]))
             st == extractStackTrace(data[k])
             next == IF k \in bl THEN extra
                     ELSE IF k = ErrorKey /\ st # <<>>
                     THEN Put(e, stackTraceKey, FormatStackTrace(st))
                     ELSE e
         IN  MergeData(next, data, bl, Tail(order))

\* The loop over hook.options.Extra of sendEntry.
MergeExtra(static) == [x \in {"_" \o k : k \in DOMAIN static} |->
                          static[CHOOSE k \in DOMAIN static : "_" \o k = x]]

\* entry.file and entry.line taken from the stack trace of the error field
\* whether or not the field is blacklisted.
FileAndLineUnfiltered(entry, bl) ==
    LET data == Deref(entry.data)
        st == IF ErrorKey \in DOMAIN data THEN extractStackTrace(data[ErrorKey]) ELSE <<>>
        at == extractFileAndLine(st)
    IN  IF st # <<>> /\ at.file # "" /\ at.line # 0
        THEN at ELSE [file |-> entry.file, line |-> entry.line]

\* entry.file and entry.line after the loop over entry.Data: those of the
\* stack trace of the error field when it has one, else the captured ones.
FileAndLine(entry, bl) ==
    LET data == Deref(entry.data)
        st == IF ErrorKey \in DOMAIN data /\ ErrorKey \notin bl
              THEN extractStackTrace(data[ErrorKey]) ELSE <<>>
        at == extractFileAndLine(st)
    IN  IF st # <<>> /\ at.file # "" /\ at.line # 0
        THEN at ELSE [file |-> entry.file, line |-> entry.line]

\* The clock ticks twice in a millisecond.
TicksPerMilli == 2

\* float64(t.UnixNano()/1000000) / 1000.: the time cut to whole milliseconds
TimeUnixOf(t) == t \div TicksPerMilli

\* The Message sendEntry builds for an entry.
Render(entry, bl, order) ==
    [id    |-> entry.id,
     TimeUnix |-> TimeUnixOf(now),
     Short |-> ShortOf(entry.msg),
     Full  |-> FullOf(entry.msg),
     Level |-> entry.level + 2,
     File  |-> FileAndLine(entry, bl).file,
     Line  |-> FileAndLine(entry, bl).line,
     Extra |-> MergeData(MergeExtra(options.Extra), Deref(entry.data), bl, order)]

\* ------------------------------------------------------------ construction
Messages == {<<"a">>, <<"a", "\n", "b">>}

DefaultFields == [k \in {"withField"} |-> "1"]

OneExtra == [k \in {"foo"} |-> "bar"]

\* getDefaultGraylogOptions, and the LogOptions applied to it
DefaultOptions == [Extra |-> OneExtra, Level |-> DebugLevel, Blacklist |-> {}]

\* --------------------------------------------------- compression pool
CompressGzip == 0

CompressZlib == 1

NoCompress == 2

defaultCompression == CompressGzip

\* flate.BestSpeed
defaultCompressionLevel == 1

\* newCompressionPool(t, level): the pool (<<>> for nil) and the error
newCompressionPool(t, level) ==
    IF t \in {CompressGzip, CompressZlib, NoCompress}
    THEN [cp |-> <<[compressType |-> t, compressionLevel |-> level]>>, err |-> "nil"]
    ELSE [cp |-> <<>>, err |-> "unknown compression type " \o ToString(t)]

\* A pool of the given type and level that nothing was borrowed from yet.
NewPool(t, level) ==
    /\ cp = newCompressionPool(t, level).cp
    /\ pool = {}
    /\ zw = <<>>
    /\ bpc = [g \in Goroutines |-> "idle"]
    /\ bw = [g \in Goroutines |-> 0]
    /\ bbuf = [g \in Goroutines |-> 0]
    /\ gets = 0
    /\ out = <<>>

\* No message was written to the network and the reader's table is empty.
NoTraffic ==
    /\ udpWrites = <<>>
    /\ net = {}
    /\ table = <<>>
    /\ delivered = EmptyBag
    /\ evicted = {}

\* extractStackTrace has not been called on its own.
NoExtraction ==
    /\ errChain = <<>>
    /\ errBack = 0
    /\ errAt = 0
    /\ asAt = 0
    /\ tracerAt = 0
    /\ spc = "idle"
    /\ stResult = <<>>

\* The fields of a hook after construction; fields is the set of
\* assignments of a Data map to each caller's entry.
InitHook(opts, writers, fields) ==
    /\ options \in opts
    /\ gelfLogger \in writers
    /\ buf = <<>>
    /\ closed = FALSE
    /\ closeChan = FALSE
    /\ mu = [readers |-> 0, writer |-> "none"]
    /\ pc = [g \in Goroutines |-> "idle"]
    /\ cur = [g \in Goroutines |-> NoEntry]
    /\ timer = [g \in Goroutines |-> 0]
    /\ wcur = NoEntry
    /\ callerData \in fields
    /\ entryData = [i \in 1..MaxCalls |-> EmptyFields]
    /\ calls = <<>>
    /\ accepted = <<>>
    /\ sent = <<>>
    /\ written = <<>>
    /\ flushes = <<>>
    /\ writeErrors = 0
    /\ now = 0

\* The state shared by both hooks after construction, the writer's
\* compression pool included.
InitCommon(opts, writers, fields) ==
    /\ NewPool(defaultCompression, defaultCompressionLevel)
    /\ NoTraffic
    /\ NoExtraction
    /\ InitHook(opts, writers, fields)

\* The constructor without "go hook.fire()": no worker runs.
NewGraylogHookExNoWorker(isAsync, opts, writers, fields) ==
    /\ InitCommon(opts, writers, fields)
    /\ blacklist = {}
    /\ synchronous = ~isAsync
    /\ wg = 0
    /\ wpc = "none"

\* NewGraylogHookEx(addr, isAsync, ops...): hook.blacklist is left nil, the
\* WaitGroup starts at zero and the worker runs only when isAsync.
NewGraylogHookEx(isAsync, opts, writers, fields) ==
    /\ InitCommon(opts, writers, fields)
    /\ blacklist = {}
    /\ synchronous = ~isAsync
    /\ wg = 0
    /\ wpc = IF isAsync THEN "recv" ELSE "none"

Init == \E isAsync \in BOOLEAN :
            NewGraylogHookEx(isAsync, {DefaultOptions}, {"nil", "writer"},
                             {[g \in Goroutines |-> DefaultFields]})

\* ------------------------------------------------- Hook of graylog_hook.go
\* sendEntry without the test of hook.gelfLogger: the Message is built and
\* written whatever the writer is.
sendEntryNoNilCheck(entry) ==
    \E order \in Orders(DOMAIN Deref(entry.data)) :
        /\ written' = Append(written, Render(entry, blacklist, order))
        /\ sent' = Append(sent, [id |-> entry.id, outcome |-> "ok"])
        /\ UNCHANGED writeErrors

\* sendEntry: nothing is written when the writer is nil; otherwise the
\* Message is rendered and handed to WriteMessage, which may fail.
sendEntry(entry) ==
    IF gelfLogger = "nil"
    THEN /\ sent' = Append(sent, [id |-> entry.id, outcome |-> "nowriter"])
         /\ UNCHANGED <<written, writeErrors>>
    ELSE \E order \in Orders(DOMAIN Deref(entry.data)) :
         \E err \in IF writeErrors < MaxWriteErrors THEN BOOLEAN ELSE {FALSE} :
            /\ written' = Append(written, Render(entry, blacklist, order))
            /\ sent' = Append(sent, [id |-> entry.id,
                                     outcome |-> IF err THEN "error" ELSE "ok"])
            /\ writeErrors' = writeErrors + (IF err THEN 1 ELSE 0)

\* Fire, lines 112-131: RLock, caller file and line, the copy of entry.Data
\* and the new entry; entry.Time is the time of the log call.
FireRLock(g, lvl, msg) ==
    /\ pc[g] = "idle"
    /\ Len(calls) < MaxCalls
    /\ mu.writer = "none"
    /\ LET id == Len(calls) + 1
           at == getCallerIgnoringLogMulti(g)
       IN  /\ mu' = [mu EXCEPT !.readers = @ + 1]
           /\ entryData' = [entryData EXCEPT ![id] = callerData[g]]
           /\ cur' = [cur EXCEPT ![g] = [id |-> id, data |-> newData(g, id),
                                         level |-> lvl, msg |-> msg,
                                         file |-> at.file, line |-> at.line,
                                         time |-> now]]
           /\ calls' = Append(calls, [data |-> callerData[g], level |-> lvl, msg |-> msg,
                                      time |-> now,
                                      afterFlush |-> \E i \in 1..Len(flushes) :
                                                        flushes[i].state = "returned",
                                      result |-> "running", via |-> "none"])
    /\ pc' = [pc EXCEPT ![g] = "built"]
    /\ UNCHANGED <<now, otherVars, poolVars, options, blacklist, synchronous, gelfLogger, buf, closed, closeChan,
                   wg, timer, wpc, wcur, callerData, accepted, sent, written, flushes,
                   writeErrors>>

\* Fire, lines 133-134: the synchronous hook sends the entry itself.
FireSync(g) ==
    /\ pc[g] = "built"
    /\ synchronous
    /\ sendEntry(cur[g])
    /\ pc' = [pc EXCEPT ![g] = "unlock"]
    /\ UNCHANGED <<now, otherVars, poolVars, options, blacklist, synchronous, gelfLogger, buf, closed, closeChan,
                   wg, mu, cur, timer, wpc, wcur, callerData, entryData, calls,
                   accepted, flushes>>

\* Fire, line 136: hook.wg.Add(1)
FireAdd(g) ==
    /\ pc[g] = "built"
    /\ ~synchronous
    /\ wg' = wg + 1
    /\ pc' = [pc EXCEPT ![g] = "send"]
    /\ UNCHANGED <<now, otherVars, poolVars, options, blacklist, synchronous, gelfLogger, buf, closed, closeChan,
                   mu, cur, timer, wpc, wcur, callerData, entryData, calls, accepted,
                   sent, written, flushes, writeErrors>>

\* Fire, line 137: hook.buf <- gEntry, ready when the open channel has room
FireSend(g) ==
    /\ pc[g] = "send"
    /\ ~closed
    /\ Len(buf) < BufSize
    /\ buf' = Append(buf, cur[g])
    /\ accepted' = Append(accepted, cur[g].id)
    /\ pc' = [pc EXCEPT ![g] = "unlock"]
    /\ UNCHANGED <<now, otherVars, poolVars, options, blacklist, synchronous, gelfLogger, closed, closeChan, wg,
                   mu, cur, timer, wpc, wcur, callerData, entryData, calls, sent,
                   written, flushes, writeErrors>>

\* Fire, line 137 on a closed channel: the send panics; the deferred RUnlock
\* runs while the panic unwinds.
FireSendClosed(g) ==
    /\ pc[g] = "send"
    /\ closed
    /\ mu' = [mu EXCEPT !.readers = @ - 1]
    /\ calls' = [calls EXCEPT ![cur[g].id].result = "panic"]
    /\ pc' = [pc EXCEPT ![g] = "panicked"]
    /\ cur' = [cur EXCEPT ![g] = NoEntry]
    /\ UNCHANGED <<now, otherVars, poolVars, options, blacklist, synchronous, gelfLogger, buf, closed, closeChan,
                   wg, timer, wpc, wcur, callerData, entryData, accepted, sent,
                   written, flushes, writeErrors>>

\* Fire, lines 113 and 140: the deferred RUnlock and return nil
FireReturn(g) ==
    /\ pc[g] = "unlock"
    /\ mu' = [mu EXCEPT !.readers = @ - 1]
    /\ calls' = [calls EXCEPT ![cur[g].id].result = "nil"]
    /\ pc' = [pc EXCEPT ![g] = "idle"]
    /\ cur' = [cur EXCEPT ![g] = NoEntry]
    /\ UNCHANGED <<now, otherVars, poolVars, options, blacklist, synchronous, gelfLogger, buf, closed, closeChan,
                   wg, timer, wpc, wcur, callerData, entryData, accepted, sent,
                   written, flushes, writeErrors>>

\* The index in flushes of the Flush call that holds or awaits the write lock
\* (Lock admits one writer at a time).
RunningFlush == CHOOSE i \in 1..Len(flushes) : flushes[i].state = "running"

\* Flush, line 146: hook.mu.Lock() excludes other writers and stops new readers
FlushLock(g) ==
    /\ pc[g] = "idle"
    /\ Len(flushes) < MaxFlush
    /\ mu.writer = "none"
    /\ mu' = [mu EXCEPT !.writer = "pending"]
    /\ flushes' = Append(flushes, [snap |-> {accepted[i] : i \in 1..Len(accepted)},
                             state |-> "running"])
    /\ pc' = [pc EXCEPT ![g] = "flock"]
    /\ UNCHANGED <<now, otherVars, poolVars, options, blacklist, synchronous, gelfLogger, buf, closed, closeChan,
                   wg, cur, timer, wpc, wcur, callerData, entryData, calls, accepted,
                   sent, written, writeErrors>>

\* Lock returns although readers still hold the mutex.
FlushAcquireEarly(g) ==
    /\ pc[g] = "flock"
    /\ mu' = [mu EXCEPT !.writer = "held"]
    /\ pc' = [pc EXCEPT ![g] = "fwait"]
    /\ UNCHANGED <<now, otherVars, poolVars, options, blacklist, synchronous, gelfLogger, buf, closed, closeChan,
                   wg, cur, timer, wpc, wcur, callerData, entryData, calls, accepted,
                   sent, written, flushes, writeErrors>>

\* Flush, line 146: Lock returns once every reader has left
FlushAcquire(g) ==
    /\ pc[g] = "flock"
    /\ mu.readers = 0
    /\ mu' = [mu EXCEPT !.writer = "held"]
    /\ pc' = [pc EXCEPT ![g] = "fwait"]
    /\ UNCHANGED <<now, otherVars, poolVars, options, blacklist, synchronous, gelfLogger, buf, closed, closeChan,
                   wg, cur, timer, wpc, wcur, callerData, entryData, calls, accepted,
                   sent, written, flushes, writeErrors>>

\* hook.wg.Wait() returns at once, whatever the counter.
WaitGroupSkipped == TRUE

\* hook.wg.Wait() is ready when the counter is zero.
WaitGroupZero == wg = 0

\* Flush, line 149: hook.wg.Wait()
FlushWait(g) ==
    /\ pc[g] = "fwait"
    /\ WaitGroupZero
    /\ pc' = [pc EXCEPT ![g] = "fclose"]
    /\ UNCHANGED <<now, otherVars, poolVars, options, blacklist, synchronous, gelfLogger, buf, closed, closeChan,
                   wg, mu, cur, timer, wpc, wcur, callerData, entryData, calls,
                   accepted, sent, written, flushes, writeErrors>>

\* Flush, line 150: close(hook.buf)
FlushClose(g) ==
    /\ pc[g] = "fclose"
    /\ ~closed
    /\ closed' = TRUE
    /\ pc' = [pc EXCEPT ![g] = "funlock"]
    /\ UNCHANGED <<now, otherVars, poolVars, options, blacklist, synchronous, gelfLogger, buf, closeChan, wg, mu,
                   cur, timer, wpc, wcur, callerData, entryData, calls, accepted, sent,
                   written, flushes, writeErrors>>

\* Flush, line 150 on a closed channel: close panics; the deferred Unlock
\* runs while the panic unwinds.
FlushCloseClosed(g) ==
    /\ pc[g] = "fclose"
    /\ closed
    /\ mu' = [mu EXCEPT !.writer = "none"]
    /\ flushes' = [flushes EXCEPT ![RunningFlush].state = "panic"]
    /\ pc' = [pc EXCEPT ![g] = "panicked"]
    /\ UNCHANGED <<now, otherVars, poolVars, options, blacklist, synchronous, gelfLogger, buf, closed, closeChan,
                   wg, cur, timer, wpc, wcur, callerData, entryData, calls, accepted,
                   sent, written, writeErrors>>

\* Flush, lines 147 and 151: the deferred Unlock and return
FlushReturn(g) ==
    /\ pc[g] = "funlock"
    /\ mu' = [mu EXCEPT !.writer = "none"]
    /\ flushes' = [flushes EXCEPT ![RunningFlush].state = "returned"]
    /\ pc' = [pc EXCEPT ![g] = "idle"]
    /\ UNCHANGED <<now, otherVars, poolVars, options, blacklist, synchronous, gelfLogger, buf, closed, closeChan,
                   wg, cur, timer, wpc, wcur, callerData, entryData, calls, accepted,
                   sent, written, writeErrors>>

\* The receive hands out the oldest entry and leaves it in the channel.
ReceiveKeep(q) == [entry |-> Head(q), rest |-> q]

\* entry, more := <-hook.buf on a channel that holds entries: the oldest one
Receive(q) == [entry |-> Head(q), rest |-> Tail(q)]

\* fire, line 156: receive an entry (a closed channel still yields what it holds)
fireReceive ==
    /\ wpc = "recv"
    /\ buf # <<>>
    /\ wcur' = Receive(buf).entry
    /\ buf' = Receive(buf).rest
    /\ wpc' = "send"
    /\ UNCHANGED <<now, otherVars, poolVars, options, blacklist, synchronous, gelfLogger, closed, closeChan, wg,
                   mu, pc, cur, timer, callerData, entryData, calls, accepted, sent,
                   written, flushes, writeErrors>>

\* The worker returns as soon as the channel holds nothing, closed or not.
fireClosedOrEmpty ==
    /\ wpc = "recv"
    /\ buf = <<>>
    /\ wpc' = "exited"
    /\ UNCHANGED <<now, otherVars, poolVars, options, blacklist, synchronous, gelfLogger, buf, closed, closeChan,
                   wg, mu, pc, cur, timer, wcur, callerData, entryData, calls, accepted,
                   sent, written, flushes, writeErrors>>

\* fire, lines 157-160: the channel is closed and empty, the worker returns
fireClosed ==
    /\ wpc = "recv"
    /\ buf = <<>>
    /\ closed
    /\ wpc' = "exited"
    /\ UNCHANGED <<now, otherVars, poolVars, options, blacklist, synchronous, gelfLogger, buf, closed, closeChan,
                   wg, mu, pc, cur, timer, wcur, callerData, entryData, calls, accepted,
                   sent, written, flushes, writeErrors>>

\* fire, line 161: hook.sendEntry(entry)
fireSendEntry ==
    /\ wpc = "send"
    /\ sendEntry(wcur)
    /\ wpc' = "done"
    /\ UNCHANGED <<now, otherVars, poolVars, options, blacklist, synchronous, gelfLogger, buf, closed, closeChan,
                   wg, mu, pc, cur, timer, wcur, callerData, entryData, calls, accepted,
                   flushes>>

\* The worker after sendEntry, when the last write failed: it stops.
AfterSendEntryStopOnError == IF sent[Len(sent)].outcome = "ok" THEN "recv" ELSE "exited"

\* fire, lines 162-163: after hook.wg.Done() the loop receives again
AfterSendEntry == "recv"

\* fire, line 162: hook.wg.Done()
fireDone ==
    /\ wpc = "done"
    /\ wg' = wg - 1
    /\ wpc' = AfterSendEntry
    /\ wcur' = NoEntry
    /\ UNCHANGED <<now, otherVars, poolVars, options, blacklist, synchronous, gelfLogger, buf, closed, closeChan,
                   mu, pc, cur, timer, callerData, entryData, calls, accepted,
                   sent, written, flushes, writeErrors>>

\* One call of Fire by goroutine g
Fire(g) ==
    \/ FireRLock(g, InfoLevel, <<"a">>)
    \/ FireSync(g)
    \/ FireAdd(g)
    \/ FireSend(g)
    \/ FireSendClosed(g)
    \/ FireReturn(g)

\* The caller changes its entry's Data between two log calls: it sets a key
\* or deletes one.
Mutate(g) ==
    /\ pc[g] = "idle"
    /\ \E k \in FieldNames :
           \/ \E v \in FieldValues :
                 /\ ~(k \in DOMAIN callerData[g] /\ callerData[g][k] = v)
                 /\ callerData' = [callerData EXCEPT ![g] = Put(@, k, v)]
           \/ /\ k \in DOMAIN callerData[g]
              /\ callerData' = [callerData EXCEPT
                                   ![g] = [x \in DOMAIN @ \ {k} |-> @[x]]]
    /\ UNCHANGED <<now, otherVars, poolVars, options, blacklist, synchronous, gelfLogger, buf, closed, closeChan,
                   wg, mu, pc, cur, timer, wpc, wcur, entryData, calls, accepted, sent,
                   written, flushes, writeErrors>>

\* One call of Flush by goroutine g
Flush(g) ==
    \/ FlushLock(g)
    \/ FlushAcquire(g)
    \/ FlushWait(g)
    \/ FlushClose(g)
    \/ FlushCloseClosed(g)
    \/ FlushReturn(g)

\* The background worker, go hook.fire()
fire ==
    \/ fireReceive
    \/ fireClosed
    \/ fireSendEntry
    \/ fireDone

Next ==
    \/ \E g \in Goroutines : Fire(g)
    \/ \E g \in Goroutines : Flush(g)
    \/ fire

Spec == Init /\ [][Next]_vars

\* The scheduler runs every goroutine that can take a step; WriteMessage is
\* a call into the network and may never return, so the worker's sendEntry
\* step carries no fairness.
FairSpecStalledWriter ==
    /\ Spec
    /\ \A g \in Goroutines : WF_vars(Fire(g)) /\ WF_vars(Flush(g))
    /\ WF_vars(fireReceive \/ fireClosed \/ fireDone)

\* Fire on a hook that is never flushed: the channel stays open.
FireOpen(g) ==
    \/ FireRLock(g, InfoLevel, <<"a">>)
    \/ FireSync(g)
    \/ FireAdd(g)
    \/ FireSend(g)
    \/ FireReturn(g)

\* The worker of a hook that is never flushed.
fireOpen ==
    \/ fireReceive
    \/ fireSendEntry
    \/ fireDone

\* Concurrent logging on a hook that is never flushed.
NextNoFlush ==
    \/ \E g \in Goroutines : FireOpen(g)
    \/ fireOpen

\* Every goroutine that can take a step is run and every write returns.
FairSpecNoFlush ==
    /\ Init
    /\ [][NextNoFlush]_vars
    /\ \A g \in Goroutines : WF_vars(FireOpen(g))
    /\ WF_vars(fireOpen)

\* ---------------------------------------------- one caller, varying data
LoggedLevels == {ErrorLevel, InfoLevel}

DataOptions == [Extra : {OneExtra}, Level : {DebugLevel}, Blacklist : {{}, {"filterMe"}}]

InitData ==
    \E isAsync \in BOOLEAN :
        NewGraylogHookEx(isAsync, DataOptions, {"writer"},
                         {[g \in Goroutines |-> IF g = 1 THEN d ELSE EmptyFields] :
                              d \in {DefaultFields, [k \in FieldNames |-> "1"]}})

\* Goroutine 1 logs entries of any level and text and changes its entry's
\* Data in between; the hook is not flushed.
NextData ==
    \/ /\ Len(calls) < MaxDataCalls
       /\ \E lvl \in LoggedLevels, msg \in Messages : FireRLock(1, lvl, msg)
    \/ FireSync(1)
    \/ FireAdd(1)
    \/ FireSend(1)
    \/ FireReturn(1)
    \/ Mutate(1)
    \/ fireOpen

SpecData == InitData /\ [][NextData]_vars

\* ---------------------------- closeChan/timeout Hook (graylog_hook_test.go)
\* NewGraylogHook, test file lines 510-533: no hook without a writer; the
\* WaitGroup counts the worker.
NewGraylogHookCC(opts, fields) ==
    /\ InitCommon(opts, {"writer"}, fields)
    /\ blacklist = {}
    /\ synchronous = FALSE
    /\ wg = 1
    /\ wpc = "recv"

InitCC == NewGraylogHookCC({DefaultOptions}, {[g \in Goroutines |-> DefaultFields]})

\* sendEntry, test file lines 592-666: as sendEntry, with the blacklist
\* looked up in hook.options.Blacklist.  An error of WriteMessage is printed
\* and nothing else depends on it, so the outcome is recorded as "written"
\* either way.
sendEntryCC(entry) ==
    IF gelfLogger = "nil"
    THEN /\ sent' = Append(sent, [id |-> entry.id, outcome |-> "nowriter"])
         /\ UNCHANGED <<written, writeErrors>>
    ELSE \E order \in Orders(DOMAIN Deref(entry.data)) :
            /\ written' = Append(written, Render(entry, options.Blacklist, order))
            /\ sent' = Append(sent, [id |-> entry.id, outcome |-> "written"])
            /\ UNCHANGED writeErrors

\* Fire, test file lines 538-556: caller file and line, the copy of
\* entry.Data and the new entry; the select starts and with it time.After.
FireCCBuild(g, lvl, msg) ==
    /\ pc[g] = "idle"
    /\ Len(calls) < MaxCalls
    /\ LET id == Len(calls) + 1
           at == getCallerIgnoringLogMulti(g)
       IN  /\ entryData' = [entryData EXCEPT ![id] = callerData[g]]
           /\ cur' = [cur EXCEPT ![g] = [id |-> id, data |-> newData(g, id),
                                         level |-> lvl, msg |-> msg,
                                         file |-> at.file, line |-> at.line,
                                         time |-> now]]
           /\ calls' = Append(calls, [data |-> callerData[g], level |-> lvl, msg |-> msg,
                                      time |-> now,
                                      afterFlush |-> closeChan,
                                      result |-> "running", via |-> "none"])
    /\ timer' = [timer EXCEPT ![g] = 0]
    /\ pc' = [pc EXCEPT ![g] = "select"]
    /\ UNCHANGED <<now, otherVars, poolVars, options, blacklist, synchronous, gelfLogger, buf, closed, closeChan,
                   wg, mu, wpc, wcur, callerData, accepted, sent, written, flushes,
                   writeErrors>>

\* Fire, test file line 559: case <-hook.closeChan, ready once closeChan is
\* closed; the entry is printed and dropped.
FireCCCloseChan(g) ==
    /\ pc[g] = "select"
    /\ closeChan
    /\ calls' = [calls EXCEPT ![cur[g].id].result = "nil", ![cur[g].id].via = "closeChan"]
    /\ pc' = [pc EXCEPT ![g] = "idle"]
    /\ timer' = [timer EXCEPT ![g] = 0]
    /\ cur' = [cur EXCEPT ![g] = NoEntry]
    /\ UNCHANGED <<now, otherVars, poolVars, options, blacklist, synchronous, gelfLogger, buf, closed, closeChan,
                   wg, mu, wpc, wcur, callerData, entryData, accepted, sent,
                   written, flushes, writeErrors>>

\* Fire, test file line 561: case hook.buf <- gEntry on the open channel,
\* ready when it has room.
FireCCSend(g) ==
    /\ pc[g] = "select"
    /\ ~closed
    /\ Len(buf) < BufSize
    /\ buf' = Append(buf, cur[g])
    /\ accepted' = Append(accepted, cur[g].id)
    /\ calls' = [calls EXCEPT ![cur[g].id].result = "nil",
                              ![cur[g].id].via = IF closeChan THEN "bufDraining" ELSE "buf"]
    /\ pc' = [pc EXCEPT ![g] = "idle"]
    /\ timer' = [timer EXCEPT ![g] = 0]
    /\ cur' = [cur EXCEPT ![g] = NoEntry]
    /\ UNCHANGED <<now, otherVars, poolVars, options, blacklist, synchronous, gelfLogger, closed, closeChan, wg,
                   mu, wpc, wcur, callerData, entryData, sent, written,
                   flushes, writeErrors>>

\* Fire, test file line 561 on the closed channel: a send on a closed
\* channel is ready, and choosing it panics.
FireCCSendClosed(g) ==
    /\ pc[g] = "select"
    /\ closed
    /\ calls' = [calls EXCEPT ![cur[g].id].result = "panic", ![cur[g].id].via = "buf"]
    /\ pc' = [pc EXCEPT ![g] = "panicked"]
    /\ timer' = [timer EXCEPT ![g] = 0]
    /\ cur' = [cur EXCEPT ![g] = NoEntry]
    /\ UNCHANGED <<now, otherVars, poolVars, options, blacklist, synchronous, gelfLogger, buf, closed, closeChan,
                   wg, mu, wpc, wcur, callerData, entryData, accepted, sent,
                   written, flushes, writeErrors>>

\* The timer of the select never fires.
TimerNever(g) == FALSE

\* <-time.After(Timeout ms) is ready once Timeout has passed since the
\* select started.
TimerFired(g) == pc[g] = "select" /\ timer[g] >= Timeout

\* Fire, test file lines 562-563: the timeout case; the failure is printed
\* and the entry dropped.
FireCCTimeout(g) ==
    /\ TimerFired(g)
    /\ calls' = [calls EXCEPT ![cur[g].id].result = "nil", ![cur[g].id].via = "timeout"]
    /\ pc' = [pc EXCEPT ![g] = "idle"]
    /\ timer' = [timer EXCEPT ![g] = 0]
    /\ cur' = [cur EXCEPT ![g] = NoEntry]
    /\ UNCHANGED <<now, otherVars, poolVars, options, blacklist, synchronous, gelfLogger, buf, closed, closeChan,
                   wg, mu, wpc, wcur, callerData, entryData, accepted, sent,
                   written, flushes, writeErrors>>

\* A millisecond passes for every goroutine waiting in the select; a timer
\* that has fired wakes its goroutine before more time passes.
Tick ==
    /\ \E g \in Goroutines : pc[g] = "select"
    /\ \A g \in Goroutines : ~TimerFired(g)
    /\ \A g \in Goroutines : timer[g] <= Timeout
    /\ timer' = [g \in Goroutines |-> IF pc[g] = "select" THEN timer[g] + 1 ELSE timer[g]]
    /\ UNCHANGED <<now, otherVars, poolVars, options, blacklist, synchronous, gelfLogger, buf, closed, closeChan,
                   wg, mu, pc, cur, wpc, wcur, callerData, entryData, calls, accepted,
                   sent, written, flushes, writeErrors>>

\* Flush, test file line 573: close(hook.closeChan)
FlushCCCloseChan(g) ==
    /\ pc[g] = "idle"
    /\ Len(flushes) < MaxFlush
    /\ ~closeChan
    /\ closeChan' = TRUE
    /\ flushes' = Append(flushes, [snap |-> {accepted[i] : i \in 1..Len(accepted)},
                                   state |-> "running"])
    /\ pc' = [pc EXCEPT ![g] = "fclose"]
    /\ UNCHANGED <<now, otherVars, poolVars, options, blacklist, synchronous, gelfLogger, buf, closed, wg, mu, cur,
                   timer, wpc, wcur, callerData, entryData, calls, accepted, sent,
                   written, writeErrors>>

\* Flush, test file line 573 on the closed closeChan: close panics.
FlushCCCloseChanClosed(g) ==
    /\ pc[g] = "idle"
    /\ Len(flushes) < MaxFlush
    /\ closeChan
    /\ flushes' = Append(flushes, [snap |-> {accepted[i] : i \in 1..Len(accepted)},
                                   state |-> "panic"])
    /\ pc' = [pc EXCEPT ![g] = "panicked"]
    /\ UNCHANGED <<now, otherVars, poolVars, options, blacklist, synchronous, gelfLogger, buf, closed, closeChan,
                   wg, mu, cur, timer, wpc, wcur, callerData, entryData, calls, accepted,
                   sent, written, writeErrors>>

\* Flush, test file line 574: close(hook.buf)
FlushCCCloseBuf(g) ==
    /\ pc[g] = "fclose"
    /\ closed' = TRUE
    /\ pc' = [pc EXCEPT ![g] = "fwait"]
    /\ UNCHANGED <<now, otherVars, poolVars, options, blacklist, synchronous, gelfLogger, buf, closeChan, wg, mu,
                   cur, timer, wpc, wcur, callerData, entryData, calls, accepted, sent,
                   written, flushes, writeErrors>>

\* Flush, test file lines 575-576: hook.wg.Wait() and return
FlushCCWait(g) ==
    /\ pc[g] = "fwait"
    /\ WaitGroupZero
    /\ flushes' = [flushes EXCEPT ![RunningFlush].state = "returned"]
    /\ pc' = [pc EXCEPT ![g] = "idle"]
    /\ UNCHANGED <<now, otherVars, poolVars, options, blacklist, synchronous, gelfLogger, buf, closed, closeChan,
                   wg, mu, cur, timer, wpc, wcur, callerData, entryData, calls, accepted,
                   sent, written, writeErrors>>

\* fire, test file lines 582-586: the channel is closed and empty; the
\* worker returns and its deferred hook.wg.Done() runs
fireCCClosed ==
    /\ wpc = "recv"
    /\ buf = <<>>
    /\ closed
    /\ wg' = wg - 1
    /\ wpc' = "exited"
    /\ UNCHANGED <<now, otherVars, poolVars, options, blacklist, synchronous, gelfLogger, buf, closed, closeChan,
                   mu, pc, cur, timer, wcur, callerData, entryData, calls, accepted,
                   sent, written, flushes, writeErrors>>

\* fire, test file line 587: hook.sendEntry(entry), then the loop receives
\* again
fireCCSendEntry ==
    /\ wpc = "send"
    /\ sendEntryCC(wcur)
    /\ wpc' = "recv"
    /\ wcur' = NoEntry
    /\ UNCHANGED <<now, otherVars, poolVars, options, blacklist, synchronous, gelfLogger, buf, closed, closeChan,
                   wg, mu, pc, cur, timer, callerData, entryData, calls, accepted,
                   flushes>>

\* One call of Fire of the closeChan hook by goroutine g
FireCC(g) ==
    \/ FireCCBuild(g, InfoLevel, <<"a">>)
    \/ FireCCCloseChan(g)
    \/ FireCCSend(g)
    \/ FireCCSendClosed(g)
    \/ FireCCTimeout(g)

\* One call of Flush of the closeChan hook by goroutine g
FlushCC(g) ==
    \/ FlushCCCloseChan(g)
    \/ FlushCCCloseChanClosed(g)
    \/ FlushCCCloseBuf(g)
    \/ FlushCCWait(g)

\* The background worker of the closeChan hook
fireCC ==
    \/ fireReceive
    \/ fireCCClosed
    \/ fireCCSendEntry

NextCC ==
    \/ \E g \in Goroutines : FireCC(g)
    \/ \E g \in Goroutines : FlushCC(g)
    \/ fireCC
    \/ Tick

SpecCC == InitCC /\ [][NextCC]_vars

\* ------------------------------------------------------------------ claims
AcceptedIds == {accepted[i] : i \in 1..Len(accepted)}

\* Calls whose wg.Add(1) has run: the entry was sent, awaits its send, or
\* its send panicked.
Counted == {i \in 1..Len(calls) :
               \/ i \in AcceptedIds
               \/ calls[i].result = "panic"
               \/ \E g \in Goroutines : pc[g] = "send" /\ cur[g].id = i}

\* Entries whose wg.Done() has run.
Finished == IF wpc = "done" THEN Ids(SubSeq(sent, 1, Len(sent) - 1)) ELSE Ids(sent)

\* C1: on an asynchronous hook, a Fire call that starts after Flush has
\* returned does not enqueue its entry, does not panic and does not block.
C1_FireAfterFlushFailsFast ==
    ~synchronous =>
        \A i \in 1..Len(calls) :
            calls[i].afterFlush =>
                /\ calls[i].result # "panic"
                /\ i \notin AcceptedIds
                /\ \A g \in Goroutines : ~(pc[g] = "send" /\ cur[g].id = i /\ ~ENABLED Fire(g))

\* C3: when Flush has returned on an asynchronous hook, the queue is empty
\* and sendEntry has completed for every entry that was in the queue or with
\* the worker when Flush was invoked.
C3_FlushDrains ==
    ~synchronous =>
        \A i \in 1..Len(flushes) :
            flushes[i].state = "returned" =>
                /\ buf = <<>>
                /\ wpc # "send"
                /\ flushes[i].snap \subseteq Ids(sent)

C3_Witness ==
    /\ ~synchronous
    /\ \E i \in 1..Len(flushes) :
           /\ flushes[i].state = "returned"
           /\ Cardinality(flushes[i].snap) >= 2
           /\ Len(sent) > Cardinality(flushes[i].snap)

C8_FailureIsLocal ==
    /\ \A i \in 1..Len(sent) : calls[sent[i].id].result # "panic"
    /\ \A g \in Goroutines :
           (synchronous /\ pc[g] = "unlock") => cur[g].id \in Ids(sent)
    /\ wpc = "exited" => (closed /\ buf = <<>>)
    /\ ~synchronous =>
           /\ wg = Cardinality(Counted \ Finished)
           /\ \A i \in 1..Len(sent) : sent[i].id = accepted[i]

C8_Witness ==
    /\ ~synchronous
    /\ wpc = "recv"
    /\ wg = 0
    /\ \E i \in 1..(Len(sent) - 1) :
           /\ sent[i].outcome = "error"
           /\ sent[i + 1].outcome = "ok"
           /\ calls[sent[i].id].result = "nil"

\* The number of Messages written for entry i.
Writes(i) == Cardinality({k \in 1..Len(written) : written[k].id = i})

\* Every Fire call the goroutines make has returned nil and its entry has
\* been through sendEntry (and, with a writer, has been written once).
AllLogged ==
    /\ Len(calls) = MaxCalls
    /\ \A g \in Goroutines : pc[g] = "idle"
    /\ \A i \in 1..MaxCalls :
           /\ calls[i].result = "nil"
           /\ i \in Ids(sent)
           /\ gelfLogger = "writer" => Writes(i) = 1

\* C5: with goroutines calling Fire concurrently and no Flush, no call
\* panics, no entry goes through sendEntry or is written more than once,
\* and in the end every call has returned and every entry has been sent.
C5_ParallelLogging ==
    /\ [](\A i \in 1..Len(calls) : calls[i].result # "panic" /\ Writes(i) <= 1)
    /\ [](\A i, j \in 1..Len(sent) : sent[i].id = sent[j].id => i = j)
    /\ <>[]AllLogged

C5_Witness ==
    /\ ~synchronous
    /\ gelfLogger = "writer"
    /\ Len(sent) = MaxCalls
    /\ \A i \in 1..MaxCalls : Writes(i) = 1 /\ calls[i].result = "nil"
    /\ sent[1].id # 1

\* C7: a Fire call never blocks for ever, even when the writer is stalled,
\* and the queue never holds more than BufSize entries.
C7_FireNeverBlocksForever ==
    /\ [](Len(buf) <= BufSize)
    /\ \A g \in Goroutines : (pc[g] = "send") ~> (pc[g] # "send")

\* C2: in the closeChan hook, once closeChan is closed no Fire enqueues an
\* entry and no Fire panics on the closed buf channel.
C2_DrainingDropsWithoutPanic ==
    \A i \in 1..Len(calls) :
        /\ calls[i].via # "bufDraining"
        /\ calls[i].result # "panic"

\* C6: in the closeChan hook a Fire never waits in the select for more than
\* Timeout; while the open queue is full the send case is not ready and the
\* timeout case is once Timeout has passed; a call that timed out returned
\* nil, its entry is never in the queue nor sent, and the step that timed
\* out left the queue as it was.
C6_TimeoutDrops ==
    /\ [](\A g \in Goroutines : pc[g] = "select" => timer[g] <= Timeout)
    /\ [](\A g \in Goroutines :
              (pc[g] = "select" /\ Len(buf) = BufSize /\ ~closed /\ ~closeChan) =>
                  /\ ~ENABLED FireCCSend(g)
                  /\ ~ENABLED FireCCCloseChan(g)
                  /\ (timer[g] = Timeout => ENABLED FireCCTimeout(g)))
    /\ [](\A i \in 1..Len(calls) :
              calls[i].via = "timeout" =>
                  /\ calls[i].result = "nil"
                  /\ i \notin AcceptedIds
                  /\ i \notin Ids(sent)
                  /\ \A k \in 1..Len(buf) : buf[k].id # i)
    /\ [][\A i \in 1..Len(calls) :
              (calls[i].via = "none" /\ calls'[i].via = "timeout") =>
                  (buf' = buf /\ accepted' = accepted)]_vars

C6_Witness ==
    /\ Len(buf) = BufSize
    /\ wpc = "send"
    /\ ~closeChan
    /\ \E i \in 1..Len(calls) : calls[i].via = "timeout"

\* The Extra a Message has when its fields are the map data.
ExtraOf(data, bl) ==
    MergeData(MergeExtra(options.Extra), data, bl,
              CHOOSE o \in Orders(DOMAIN data) : TRUE)

\* C9: the Message written for an entry is made of the fields, the level and
\* the text the caller's entry had when Fire was called, whatever the caller
\* did to entry.Data afterwards; the caller's map changes only by the
\* caller's own doing.
C9_FireSnapshots ==
    /\ [](\A k \in 1..Len(written) :
              LET m == written[k]
                  c == calls[m.id]
              IN  /\ m.Extra = ExtraOf(c.data, blacklist)
                  /\ m.Level = c.level + 2
                  /\ m.Short = ShortOf(c.msg)
                  /\ m.Full = FullOf(c.msg))
    /\ [][callerData' # callerData => \E g \in Goroutines : Mutate(g)]_vars

C9_Witness ==
    /\ ~synchronous
    /\ \E k \in 1..Len(written) :
           /\ DOMAIN calls[written[k].id].data = FieldNames
           /\ written[k].Extra = ExtraOf(calls[written[k].id].data, blacklist)
           /\ callerData[1] = EmptyFields
           /\ Len(sent) = 1

\* C10: no field whose name Options.Blacklist marks true appears, prefixed
\* with "_", in the Extra of the Message written for the entry.
C10_BlacklistFilters ==
    \A k \in 1..Len(written) :
        \A name \in options.Blacklist :
            name \in DOMAIN calls[written[k].id].data =>
                ("_" \o name) \notin DOMAIN written[k].Extra

\* ------------------------- closeChan hook: one caller, varying options
CCDataOptions == [Extra : {OneExtra, [k \in {"filterMe"} |-> "bar"]},
                  Level : {DebugLevel},
                  Blacklist : {{}, {"filterMe"}}]

InitCCData ==
    NewGraylogHookCC(CCDataOptions,
                     {[g \in Goroutines |-> IF g = 1 THEN d ELSE EmptyFields] :
                          d \in {DefaultFields, [k \in FieldNames |-> "1"]}})

\* Goroutine 1 logs entries of any level and text through the closeChan
\* hook; the hook is not flushed.
NextCCData ==
    \/ /\ Len(calls) < MaxDataCalls
       /\ \E lvl \in LoggedLevels, msg \in Messages : FireCCBuild(1, lvl, msg)
    \/ FireCCSend(1)
    \/ FireCCTimeout(1)
    \/ Tick
    \/ fireReceive
    \/ fireCCSendEntry

SpecCCData == InitCCData /\ [][NextCCData]_vars

\* C11: in the closeChan hook no Message carries the key "_"+k for a name k
\* of Options.Blacklist, whether k came from the entry's fields or from the
\* static fields of Options.Extra.
C11_BlacklistAnyOrigin ==
    \A i \in 1..Len(written) :
        \A k \in options.Blacklist : ("_" \o k) \notin DOMAIN written[i].Extra

\* --------------------------------------------- one caller, varying text
\* Every message text of at most MaxTextLen characters.
Texts == UNION {[1..n -> {"a", " ", "\n"}] : n \in 0..MaxTextLen}

InitText ==
    \E isAsync \in BOOLEAN :
        NewGraylogHookEx(isAsync, {DefaultOptions}, {"writer"},
                         {[g \in Goroutines |-> DefaultFields]})

\* Goroutine 1 logs entries of any text; the hook is not flushed.
NextText ==
    \/ /\ Len(calls) < MaxDataCalls
       /\ \E msg \in Texts : FireRLock(1, InfoLevel, msg)
    \/ FireSync(1)
    \/ FireAdd(1)
    \/ FireSend(1)
    \/ FireReturn(1)
    \/ fireOpen

SpecText == InitText /\ [][NextText]_vars

\* The text up to its first newline.
FirstLine(text) ==
    IF \E i \in 1..Len(text) : text[i] = "\n"
    THEN SubSeq(text, 1, (CHOOSE i \in 1..Len(text) :
                             text[i] = "\n" /\ \A j \in 1..(i - 1) : text[j] # "\n") - 1)
    ELSE text

\* C12: for every message text, short_message is the first line of the text
\* and full_message is the entire text when it has more than one line and
\* empty when it has one.
C12_ShortAndFull ==
    \A i \in 1..Len(written) :
        LET text == calls[written[i].id].msg
        IN  /\ written[i].Short = FirstLine(text)
            /\ written[i].Full = (IF \E j \in 1..Len(text) : text[j] = "\n"
                                  THEN text ELSE <<>>)

\* -------------------------------------- one caller, varying severities
\* The loop of Levels over the levels from index i on.
RECURSIVE LevelsFrom(_, _)
LevelsFrom(i, levels) ==
    IF i > Len(AllLevels) THEN levels
    ELSE LevelsFrom(i + 1, IF AllLevels[i] <= options.Level
                           THEN Append(levels, AllLevels[i]) ELSE levels)

\* Levels reports every level.
LevelsAll == AllLevels

\* hook.Levels(): the levels the hook is registered for
Levels == LevelsFrom(1, <<>>)

\* The logger fires the hooks registered for the entry's level: Fire is
\* called when the level is one of hook.Levels().
LogFire(g, lvl, msg) ==
    /\ \E i \in 1..Len(Levels) : Levels[i] = lvl
    /\ FireRLock(g, lvl, msg)

\* The logger has no hook to fire for a level that is not one of
\* hook.Levels(): the event never reaches Fire.
LogSkip(g, lvl, msg) ==
    /\ pc[g] = "idle"
    /\ Len(calls) < MaxCalls
    /\ \A i \in 1..Len(Levels) : Levels[i] # lvl
    /\ calls' = Append(calls, [data |-> callerData[g], level |-> lvl, msg |-> msg,
                               time |-> now,
                               afterFlush |-> FALSE,
                               result |-> "filtered", via |-> "none"])
    /\ UNCHANGED <<now, otherVars, poolVars, options, blacklist, synchronous, gelfLogger, buf, closed, closeChan,
                   wg, mu, pc, cur, timer, wpc, wcur, callerData, entryData, accepted,
                   sent, written, flushes, writeErrors>>

LevelOptions == [Extra : {OneExtra}, Level : {AllLevels[i] : i \in 1..Len(AllLevels)},
                 Blacklist : {{}}]

InitLevels ==
    \E isAsync \in BOOLEAN :
        NewGraylogHookEx(isAsync, LevelOptions, {"writer"},
                         {[g \in Goroutines |-> DefaultFields]})

\* Goroutine 1 logs entries of any level through the logger; the hook is
\* not flushed.
NextLevels ==
    \/ /\ Len(calls) < MaxDataCalls
       /\ \E i \in 1..Len(AllLevels) : LogFire(1, AllLevels[i], <<"a">>)
    \/ /\ Len(calls) < MaxDataCalls
       /\ \E i \in 1..Len(AllLevels) : LogSkip(1, AllLevels[i], <<"a">>)
    \/ FireSync(1)
    \/ FireAdd(1)
    \/ FireSend(1)
    \/ FireReturn(1)
    \/ fireOpen

SpecLevels == InitLevels /\ [][NextLevels]_vars

\* The syslog severity of a logrus level: alert, crit, err, warning, info,
\* debug, debug.
SyslogSeverity(lvl) ==
    CASE lvl = PanicLevel -> 1
      [] lvl = FatalLevel -> 2
      [] lvl = ErrorLevel -> 3
      [] lvl = WarnLevel  -> 4
      [] lvl = InfoLevel  -> SyslogInfoLevel
      [] lvl = DebugLevel -> 7
      [] lvl = TraceLevel -> 7

\* C13: the level of every Message is the syslog severity of the logrus
\* level the entry was logged at.
C13_LevelIsSyslogSeverity ==
    \A i \in 1..Len(written) :
        written[i].Level = SyslogSeverity(calls[written[i].id].level)

\* The ids of the entries that are queued, received, accepted, sent or
\* written.
Dispatched ==
    (Ids(buf) \cup Ids(sent) \cup Ids(written) \cup {accepted[i] : i \in 1..Len(accepted)}
        \cup {wcur.id} \cup {cur[g].id : g \in Goroutines}) \ {0}

\* C14: Levels() is exactly the levels at or below Options.Level, and an
\* event of a level above Options.Level is never built, queued or sent.
C14_MinimumSeverity ==
    /\ \A k \in 1..Len(AllLevels) :
           (\E i \in 1..Len(Levels) : Levels[i] = AllLevels[k]) <=> AllLevels[k] <= options.Level
    /\ \A id \in 1..Len(calls) :
           calls[id].level > options.Level =>
               calls[id].result = "filtered" /\ id \notin Dispatched
    /\ \A id \in Dispatched : calls[id].level <= options.Level

\* An event above the threshold was logged and dropped.
C14_Witness ==
    \E id \in 1..Len(calls) :
        calls[id].level > options.Level /\ calls[id].result = "filtered"

\* ----------------------------------------- one caller, error-valued fields
ErrorOptions == [Extra : {OneExtra}, Level : {DebugLevel}, Blacklist : {{}, {ErrorKey}}]

\* The Data maps of the entries logged: WithError(err), WithField with an
\* error or a string value, and both.
ErrorFields ==
    {[k \in {ErrorKey} |-> v] : v \in ErrorValues \cup {"1"}}
        \cup {[k \in {"withField"} |-> v] : v \in ErrorValues}
        \cup {[k \in {ErrorKey, "withField"} |-> IF k = ErrorKey THEN v ELSE "1"] :
                  v \in ErrorValues}
        \cup {DefaultFields}

InitErrors ==
    \E isAsync \in BOOLEAN :
        NewGraylogHookEx(isAsync, ErrorOptions, {"writer"},
                         {[g \in Goroutines |-> IF g = 1 THEN d ELSE EmptyFields] :
                              d \in ErrorFields})

\* Goroutine 1 logs its entry; the hook is not flushed.
NextErrors ==
    \/ /\ Len(calls) < MaxDataCalls
       /\ FireRLock(1, InfoLevel, <<"a">>)
    \/ FireSync(1)
    \/ FireAdd(1)
    \/ FireSend(1)
    \/ FireReturn(1)
    \/ fireOpen

SpecErrors == InitErrors /\ [][NextErrors]_vars

\* C15: a field of any name whose value is an error without MarshalJSON is
\* rendered as a value that serializes to the error's text; an error with
\* MarshalJSON is rendered unchanged.
C15_ErrorFieldsSerializeAsText ==
    \A i \in 1..Len(written) :
        LET data == calls[written[i].id].data
        IN  \A k \in DOMAIN data :
                IsError(data[k]) /\ k \notin options.Blacklist =>
                    /\ ("_" \o k) \in DOMAIN written[i].Extra
                    /\ IF IsMarshaler(data[k])
                       THEN written[i].Extra["_" \o k] = data[k]
                       ELSE MarshalJSON(written[i].Extra["_" \o k])
                                = "\"" \o ErrorText(Chain(data[k])) \o "\""

\* The depths at which an error's chain carries a stack trace.
TraceDepths(v) ==
    IF IsError(v) THEN {j \in 1..Len(Chain(v)) : IsTracer(Chain(v)[j])} ELSE {}

\* The entry's error field, when it has one that is not blacklisted.
ErrorFieldOf(data) ==
    IF ErrorKey \in DOMAIN data /\ ErrorKey \notin options.Blacklist
    THEN data[ErrorKey] ELSE "none"

CompressTypes == (CompressGzip - 1)..(NoCompress + 1)

\* C17: newCompressionPool returns an error and no pool for every unknown
\* CompressType, and a hook whose writer could not be created reports no
\* new failure for the messages logged through it.
C17_ConfigurationErrorReportedOnce ==
    /\ \A t \in CompressTypes \ {CompressGzip, CompressZlib, NoCompress} :
           LET r == newCompressionPool(t, defaultCompressionLevel)
           IN  r.err # "nil" /\ r.cp = <<>>
    /\ gelfLogger = "nil" =>
           \A i \in 1..Len(sent) : sent[i].outcome # "nowriter"

\* ------------------------------------------- a hook without a writer
InitNilWriter ==
    \E isAsync \in BOOLEAN :
        NewGraylogHookEx(isAsync, {DefaultOptions}, {"nil"},
                         {[g \in Goroutines |-> DefaultFields]})

\* Every goroutine that can take a step is run; without a writer sendEntry
\* only prints and returns.
FairSpecNilWriter ==
    /\ InitNilWriter
    /\ [][Next]_vars
    /\ \A g \in Goroutines : WF_vars(Fire(g)) /\ WF_vars(Flush(g))
    /\ WF_vars(fire)

\* Every Fire call that started before a Flush returned has returned nil
\* and its entry went through sendEntry, and the first Flush has returned.
NilWriterSettled ==
    /\ \A id \in 1..Len(calls) :
           ~calls[id].afterFlush => calls[id].result = "nil" /\ id \in Ids(sent)
    /\ Len(flushes) >= 1
    /\ flushes[1].state = "returned"

\* C18: on a hook whose writer is nil no Fire call panics (the calls made
\* after a Flush aside), sendEntry drops every entry without writing, every
\* call returns nil with its entry counted as processed, and the first
\* Flush returns.
C18_NilWriterIsHarmless ==
    /\ [](\A id \in 1..Len(calls) : ~calls[id].afterFlush => calls[id].result # "panic")
    /\ [](written = <<>> /\ \A i \in 1..Len(sent) : sent[i].outcome = "nowriter")
    /\ [](Len(flushes) >= 1 => flushes[1].state # "panic")
    /\ <>[]NilWriterSettled

\* An asynchronous hook without a writer dropped an entry and was flushed.
C18_Witness ==
    /\ gelfLogger = "nil"
    /\ ~synchronous
    /\ Len(sent) >= 1
    /\ calls[sent[1].id].result = "nil"
    /\ Len(flushes) >= 1
    /\ flushes[1].state = "returned"

\* ------------------------------------- borrowers of the compression pool
\* The state of the hook, which the pool's operations leave alone.
hookVars == <<options, blacklist, synchronous, gelfLogger, buf, closed, closeChan,
              wg, mu, pc, cur, timer, wpc, wcur, callerData, entryData, calls,
              accepted, sent, written, flushes, writeErrors>>

\* gzip.NewWriterLevel and zlib.NewWriterLevel accept the levels from
\* HuffmanOnly to BestCompression.
ValidLevel(level) == level >= -2 /\ level <= 9

PoolLevels == {defaultCompressionLevel, 10}

\* Reset left out: the writer keeps the buffer it wrote to before.
ResetSkipped(w, b) == zw

\* gzipw.Reset(buf) / zlibw.Reset(buf)
Reset(w, b) == [zw EXCEPT ![w] = b]

Pooled == cp # <<>> /\ cp[1].compressType \in {CompressGzip, CompressZlib}

\* Get, lines 73 and 77: cp.p.Get() hands out a writer that is idle in the
\* pool and removes it from the pool.
PoolGetIdle(g) ==
    /\ bpc[g] = "idle" /\ gets < MaxGets /\ Pooled
    /\ \E w \in pool :
           /\ pool' = pool \ {w}
           /\ bw' = [bw EXCEPT ![g] = w]
    /\ gets' = gets + 1
    /\ bbuf' = [bbuf EXCEPT ![g] = gets + 1]
    /\ bpc' = [bpc EXCEPT ![g] = "reset"]
    /\ UNCHANGED <<now, otherVars, hookVars, cp, zw, out>>

\* Get, lines 73 and 77: cp.p.Get() finds no writer for this goroutine (the
\* pool is empty, or its writers sit in another processor's cache or were
\* collected) and calls New, lines 47-66: a writer over a buffer of its own.
PoolGetNew(g) ==
    /\ bpc[g] = "idle" /\ gets < MaxGets /\ Pooled
    /\ ValidLevel(cp[1].compressionLevel)
    /\ zw' = Append(zw, 0)
    /\ bw' = [bw EXCEPT ![g] = Len(zw) + 1]
    /\ gets' = gets + 1
    /\ bbuf' = [bbuf EXCEPT ![g] = gets + 1]
    /\ bpc' = [bpc EXCEPT ![g] = "reset"]
    /\ UNCHANGED <<now, otherVars, hookVars, cp, pool, out>>

\* New returns nil when NewWriterLevel rejects the level, and the type
\* assertion of Get on the nil interface panics.
PoolGetNewPanic(g) ==
    /\ bpc[g] = "idle" /\ gets < MaxGets /\ Pooled
    /\ ~ValidLevel(cp[1].compressionLevel)
    /\ gets' = gets + 1
    /\ bpc' = [bpc EXCEPT ![g] = "panicked"]
    /\ UNCHANGED <<now, otherVars, hookVars, cp, pool, zw, bw, bbuf, out>>

\* Get, lines 74-75 and 78-79: Reset(buf) and return
PoolGetReset(g) ==
    /\ bpc[g] = "reset"
    /\ zw' = Reset(bw[g], bbuf[g])
    /\ bpc' = [bpc EXCEPT ![g] = "using"]
    /\ UNCHANGED <<now, otherVars, hookVars, cp, pool, bw, bbuf, gets, out>>

\* Get, lines 80-81: without compression every call returns a new
\* bufferedWriter over buf.
PoolGetNoCompress(g) ==
    /\ bpc[g] = "idle" /\ gets < MaxGets
    /\ cp # <<>> /\ cp[1].compressType = NoCompress
    /\ zw' = Append(zw, gets + 1)
    /\ bw' = [bw EXCEPT ![g] = Len(zw) + 1]
    /\ gets' = gets + 1
    /\ bbuf' = [bbuf EXCEPT ![g] = gets + 1]
    /\ bpc' = [bpc EXCEPT ![g] = "using"]
    /\ UNCHANGED <<now, otherVars, hookVars, cp, pool, out>>

\* The borrower writes through the writer Get returned.
PoolWrite(g) ==
    /\ bpc[g] = "using"
    /\ out' = Append(out, [w |-> bw[g], to |-> zw[bw[g]], buf |-> bbuf[g]])
    /\ bpc' = [bpc EXCEPT ![g] = "wrote"]
    /\ UNCHANGED <<now, otherVars, hookVars, cp, pool, zw, bw, bbuf, gets>>

\* Put, lines 87-92: the writer goes back into the pool when the type is
\* gzip or zlib; the borrower gives up the writer.
PoolPut(g) ==
    /\ bpc[g] \in {"using", "wrote"}
    /\ pool' = IF Pooled THEN pool \cup {bw[g]} ELSE pool
    /\ bw' = [bw EXCEPT ![g] = 0]
    /\ bbuf' = [bbuf EXCEPT ![g] = 0]
    /\ bpc' = [bpc EXCEPT ![g] = "idle"]
    /\ UNCHANGED <<now, otherVars, hookVars, cp, zw, gets, out>>

InitPool ==
    /\ \E t \in CompressTypes, level \in PoolLevels : NewPool(t, level)
    /\ NoTraffic
    /\ NoExtraction
    /\ InitHook({DefaultOptions}, {"writer"}, {[g \in Goroutines |-> DefaultFields]})
    /\ blacklist = {}
    /\ synchronous = TRUE
    /\ wg = 0
    /\ wpc = "none"

NextPool ==
    \E g \in Goroutines :
        \/ PoolGetIdle(g)
        \/ PoolGetNew(g)
        \/ PoolGetNewPanic(g)
        \/ PoolGetReset(g)
        \/ PoolGetNoCompress(g)
        \/ PoolWrite(g)
        \/ PoolPut(g)

SpecPool == InitPool /\ [][NextPool]_vars

\* C19: no writer of a gzip or zlib pool is held by two borrowers or is
\* idle in the pool while a borrower holds it, and every writer Get has
\* returned writes to the buffer passed to that Get: every Write goes to
\* the writing borrower's own buffer.
C19_SingleBorrower ==
    /\ \A g, h \in Goroutines : g # h /\ bw[g] # 0 => bw[g] # bw[h]
    /\ \A g \in Goroutines : bw[g] # 0 => bw[g] \notin pool
    /\ \A g \in Goroutines : bpc[g] \in {"using", "wrote"} => zw[bw[g]] = bbuf[g]
    /\ \A i \in 1..Len(out) : out[i].to = out[i].buf

\* A writer that was used and put back was handed out again by a later Get,
\* and the Write after it went into the buffer of that Get.
C19_Witness ==
    /\ Pooled
    /\ \E i, j \in 1..Len(out) :
           i < j /\ out[i].w = out[j].w /\ out[i].buf # out[j].buf /\ out[j].to = out[j].buf

\* ------------------------------------------------ caller file and line
\* Concurrent logging, synchronous or asynchronous, on a hook that is
\* never flushed.
SpecNoFlush == Init /\ [][NextNoFlush]_vars

\* The log call of goroutine g: the frame right above the logger's frames.
CallSite(g) == [file |-> "main.go", line |-> 10 + g]

\* The file and line entry id carries, wherever it is: in the Fire call that
\* built it, in the queue, with the worker, or in the Message written.
Places(id) ==
    {[file |-> cur[g].file, line |-> cur[g].line] : g \in {h \in Goroutines : cur[h].id = id}}
        \cup {[file |-> buf[i].file, line |-> buf[i].line] : i \in {j \in 1..Len(buf) : buf[j].id = id}}
        \cup (IF wcur.id = id /\ id # 0 THEN {[file |-> wcur.file, line |-> wcur.line]} ELSE {})
        \cup {[file |-> written[i].File, line |-> written[i].Line] :
                  i \in {j \in 1..Len(written) : written[j].id = id}}

C21_CallerOmittedByDefault ==
    \A i \in 1..Len(written) :
        TraceDepths(ErrorFieldOf(calls[written[i].id].data)) = {} =>
            /\ written[i].File = ""
            /\ written[i].Line = 0
            /\ DOMAIN written[i].Extra \cap {"_file", "_line", "_function"} = {}

\* --------------------------- static extras named like per-event fields
OverrideOptions == [Extra : {[k \in {"foo", "withField"} |-> "bar"],
                             [k \in FieldNames |-> "bar"]},
                    Level : {DebugLevel},
                    Blacklist : {{}, {"filterMe"}}]

InitOverride ==
    \E isAsync \in BOOLEAN :
        NewGraylogHookEx(isAsync, OverrideOptions, {"writer"},
                         {[g \in Goroutines |-> IF g = 1 THEN d ELSE EmptyFields] :
                              d \in AllFields})

SpecOverride == InitOverride /\ [][NextData]_vars

Phase == IF wpc = "exited" THEN 2 ELSE IF closed THEN 1 ELSE 0

\* C23: the lifecycle only moves forward, Open to Draining to Stopped; the
\* worker returns only after Flush closed the queue and when the queue holds
\* no entry, never while the hook is Open; and no entry enters the queue once
\* Flush holds the lock or has closed the queue.
C23_LifecycleMovesForward ==
    /\ [][Phase' >= Phase]_vars
    /\ [][wpc' = "exited" /\ wpc # "exited" =>
              /\ closed
              /\ buf = <<>>
              /\ \E i \in 1..Len(flushes) : flushes[i].state \in {"running", "returned"}]_vars
    /\ [][accepted' # accepted \/ Len(buf') > Len(buf) =>
              /\ ~closed
              /\ mu.writer # "held"
              /\ \A i \in 1..Len(flushes) : flushes[i].state = "running"]_vars

\* The hook went through all three phases: entries were accepted and written,
\* Flush returned, the worker returned, and a later Fire was not accepted.
C23_Witness ==
    /\ wpc = "exited"
    /\ accepted # <<>>
    /\ Ids(sent) = {accepted[i] : i \in 1..Len(accepted)}
    /\ \E i \in 1..Len(flushes) : flushes[i].state = "returned"
    /\ \E id \in 1..Len(calls) :
           /\ calls[id].afterFlush
           /\ calls[id].result # "running"
           /\ \A i \in 1..Len(accepted) : accepted[i] # id

\* --------------------- closeChan hook: one caller, error-valued fields
InitCCErrors ==
    NewGraylogHookCC(ErrorOptions,
                     {[g \in Goroutines |-> IF g = 1 THEN d ELSE EmptyFields] :
                          d \in ErrorFields})

SpecCCErrors == InitCCErrors /\ [][NextCCData]_vars

\* C29: when "error" is in Options.Blacklist of the closeChan hook, the
\* Message of an entry with an error field has neither "_error" nor
\* "_stacktrace", and its File and Line are those of the call site, not of
\* the error's stack trace.
C29_BlacklistedErrorLeavesNoTrace ==
    \A i \in 1..Len(written) :
        ErrorKey \in options.Blacklist /\ ErrorKey \in DOMAIN calls[written[i].id].data =>
            /\ ("_" \o ErrorKey) \notin DOMAIN written[i].Extra
            /\ stackTraceKey \notin DOMAIN written[i].Extra
            /\ written[i].File = getCallerIgnoringLogMulti(1).file
            /\ written[i].Line = getCallerIgnoringLogMulti(1).line

\* A Message was written for an entry whose blacklisted error field carries
\* a stack trace: it reports the call site and its other field.
C29_Witness ==
    \E i \in 1..Len(written) :
        LET data == calls[written[i].id].data
        IN  /\ ErrorKey \in options.Blacklist
            /\ ErrorKey \in DOMAIN data
            /\ extractStackTrace(data[ErrorKey]) # <<>>
            /\ "withField" \in DOMAIN data
            /\ "_withField" \in DOMAIN written[i].Extra
            /\ stackTraceKey \notin DOMAIN written[i].Extra
            /\ written[i].File = "main.go"

\* ------------------------------------------------- Flush under fairness
\* Every goroutine that can take a step is run and every write returns.
FairSpec ==
    /\ Spec
    /\ \A g \in Goroutines : WF_vars(Fire(g)) /\ WF_vars(Flush(g))
    /\ WF_vars(fire)

\* C30: every call of Flush eventually returns, when the worker and the
\* callers are scheduled fairly and every write returns: whether producers
\* are blocked in Fire on a full queue or the hook is synchronous.
C30_FlushReturns ==
    \A i \in 1..MaxFlush :
        [](Len(flushes) >= i => <>(Len(flushes) >= i /\ flushes[i].state = "returned"))

\* ------------------------------------- extractStackTrace, step by step
MaxChainLen == 3

\* The kinds of node that wrap another error, and those that do not.
LinkKinds == {"wrapError", "withStack", "withMessage", "tracedWrap", "causeOnly"}

LeafKinds == {"errorString", "fundamental"}

\* The errors extractStackTrace is called with: nil, the chains that end in
\* a leaf, and the chains whose last node wraps a node of the chain (a cycle;
\* a single node that wraps itself is an error whose Cause() returns itself).
Errors ==
    {[chain |-> <<>>, back |-> 0]}
        \cup {[chain |-> c, back |-> 0] :
                  c \in UNION {{x \in [1..n -> LinkKinds \cup LeafKinds] :
                                    /\ x[n] \in LeafKinds
                                    /\ \A i \in 1..(n - 1) : x[i] \in LinkKinds} :
                               n \in 1..MaxChainLen}}
        \cup UNION {{[chain |-> c, back |-> b] :
                         b \in 1..n, c \in {x \in [1..n -> LinkKinds] : n = 1 => x[1] \in causer}} :
                        n \in 1..MaxChainLen}

\* What Cause() or Unwrap() of node i returns (0: nil).
Wrapped(i) == IF i < Len(errChain) THEN i + 1 ELSE errBack

InitExtract ==
    /\ NewPool(defaultCompression, defaultCompressionLevel)
    /\ NoTraffic
    /\ InitHook({DefaultOptions}, {"writer"}, {[g \in Goroutines |-> DefaultFields]})
    /\ blacklist = {}
    /\ synchronous = TRUE
    /\ wg = 0
    /\ wpc = "none"
    /\ \E e \in Errors :
           /\ errChain = e.chain
           /\ errBack = e.back
    /\ errAt = 0
    /\ asAt = 0
    /\ tracerAt = 0
    /\ spc = "idle"
    /\ stResult = <<>>

\* extractStackTrace(err), lines 33-36: tracer is nil and the loop starts
\* with errors.As(err, &st).
ExtractCall ==
    /\ spc = "idle"
    /\ errAt' = IF errChain = <<>> THEN 0 ELSE 1
    /\ asAt' = errAt'
    /\ tracerAt' = 0
    /\ spc' = "asTracer"
    /\ UNCHANGED <<now, hookVars, poolVars, udpVars, errChain, errBack, stResult>>

\* errors.As(err, &st), lines 37-39, one node at a time: nil and a node
\* without Unwrap end the search, a stackTracer is assigned to tracer, any
\* other node is unwrapped.
ExtractAsTracer ==
    /\ spc = "asTracer"
    /\ IF asAt # 0 /\ errChain[asAt] \in stackTracer
       THEN /\ tracerAt' = asAt
            /\ asAt' = errAt
            /\ spc' = "asCauser"
       ELSE IF asAt # 0 /\ HasUnwrap(errChain[asAt])
       THEN /\ asAt' = Wrapped(asAt)
            /\ UNCHANGED <<tracerAt, spc>>
       ELSE /\ asAt' = errAt
            /\ spc' = "asCauser"
            /\ UNCHANGED tracerAt
    /\ UNCHANGED <<now, hookVars, poolVars, udpVars, errChain, errBack, errAt, stResult>>

\* errors.As(err, &cause), lines 41-46, one node at a time: a causer makes
\* err its Cause() and the loop continues; without one the loop breaks.
ExtractAsCauser ==
    /\ spc = "asCauser"
    /\ IF asAt # 0 /\ errChain[asAt] \in causer
       THEN /\ errAt' = Wrapped(asAt)
            /\ asAt' = errAt'
            /\ spc' = "asTracer"
       ELSE IF asAt # 0 /\ HasUnwrap(errChain[asAt])
       THEN /\ asAt' = Wrapped(asAt)
            /\ UNCHANGED <<errAt, spc>>
       ELSE /\ asAt' = 0
            /\ spc' = "return"
            /\ UNCHANGED errAt
    /\ UNCHANGED <<now, hookVars, poolVars, udpVars, errChain, errBack, tracerAt, stResult>>

\* lines 48-51: nil without a tracer, else tracer.StackTrace()
ExtractReturn ==
    /\ spc = "return"
    /\ stResult' = IF tracerAt = 0 THEN <<>> ELSE StackTraceAt(tracerAt)
    /\ spc' = "done"
    /\ UNCHANGED <<now, hookVars, poolVars, udpVars, errChain, errBack, errAt, asAt, tracerAt>>

NextExtract ==
    \/ ExtractCall
    \/ ExtractAsTracer
    \/ ExtractAsCauser
    \/ ExtractReturn

SpecExtract == InitExtract /\ [][NextExtract]_vars

\* The goroutine that called extractStackTrace keeps running.
FairSpecExtract == SpecExtract /\ WF_vars(NextExtract)

\* C27: extractStackTrace returns for every error it is given: nil, a chain
\* that ends, an error whose Cause() returns itself and a chain that cycles.
C27_ExtractTerminates == <>(spc = "done")

\* C28: for a chain that ends, extractStackTrace returns the stack trace of
\* the deepest node that carries one, and nil exactly when no node does.
C28_DeepestTrace ==
    spc = "done" /\ errBack = 0 =>
        LET depths == {j \in 1..Len(errChain) : errChain[j] \in stackTracer}
        IN  IF depths = {} THEN stResult = <<>>
            ELSE stResult = StackTraceAt(CHOOSE j \in depths : \A h \in depths : h <= j)

\* ------------------------------------------------ UDP writer and reader
MaxMessages == 2

\* The payload bytes one chunk carries, the longest payload sent as a single
\* datagram, the most chunks a message may have, and the age (in ticks of
\* the reader's clock) beyond which a pending entry is swept.
chunkPayloadSize == 2

chunkThreshold == chunkPayloadSize

maxChunkCount == 3

reassemblyTimeout == 1

\* The two bytes a chunk starts with; the header is the magic number, the
\* message id, the sequence index and the total.
magic == <<30, 15>>

HeaderLen == Len(magic) + 3

MessageIds == 1..MaxMessages

\* The lengths of the payloads written: around the threshold and around
\* the largest chunked message.
PayloadLengths ==
    {chunkThreshold, chunkThreshold + 1,
     chunkPayloadSize * maxChunkCount, chunkPayloadSize * maxChunkCount + 1}

\* The serialized, compressed bytes of the k-th message, n bytes long.
Payload(k, n) == [i \in 1..n |-> 100 * k + i]

Min(a, b) == IF a <= b THEN a ELSE b

\* The chunk count rounded down: a last, shorter chunk is left out.
NumChunksFloor(n) == n \div chunkPayloadSize

\* N = ceil(length / chunkPayloadSize)
NumChunks(n) == (n + chunkPayloadSize - 1) \div chunkPayloadSize

\* The i-th payload slice, i counted from 0.
Slice(p, i) ==
    SubSeq(p, i * chunkPayloadSize + 1, Min((i + 1) * chunkPayloadSize, Len(p)))

\* The datagram of chunk i of n: header, then the slice.
Chunk(id, i, n, p) == magic \o <<id, i, n>> \o Slice(p, i)

\* The message id of the next chunked message: one no message was sent
\* with yet.
FreshId == Len(udpWrites) + 1

\* WriteMessage on the UDP writer, the payload already serialized and
\* compressed: one datagram without header up to the threshold; a
\* size-exceeded error and nothing sent above the maximum chunk count; else
\* a fresh message id and the chunks in increasing sequence order.
WriteMessage ==
    /\ Len(udpWrites) < MaxMessages
    /\ \E n \in PayloadLengths :
           LET p == Payload(Len(udpWrites) + 1, n)
               total == NumChunks(n)
           IN  IF n <= chunkThreshold
               THEN /\ net' = net \cup {p}
                    /\ udpWrites' = Append(udpWrites, [payload |-> p, id |-> 0, err |-> "nil",
                                                       datagrams |-> <<p>>])
               ELSE IF total > maxChunkCount
               THEN /\ udpWrites' = Append(udpWrites, [payload |-> p, id |-> 0,
                                                       err |-> "msg too large",
                                                       datagrams |-> <<>>])
                    /\ UNCHANGED net
               ELSE LET chunks == [i \in 1..total |-> Chunk(FreshId, i - 1, total, p)]
                    IN  /\ net' = net \cup {chunks[i] : i \in 1..total}
                        /\ udpWrites' = Append(udpWrites, [payload |-> p, id |-> FreshId,
                                                           err |-> "nil",
                                                           datagrams |-> chunks])
    /\ UNCHANGED <<now, hookVars, poolVars, walkVars, table, delivered, evicted>>

\* A datagram that starts with the chunk magic number is a chunk.
IsChunk(d) == Len(d) >= HeaderLen /\ SubSeq(d, 1, Len(magic)) = magic

\* The entry is taken for complete as soon as its last chunk is there.
CompleteOnLast(e) == (e.total - 1) \in DOMAIN e.chunks

\* All `total` sequence indices of the entry are present.
Complete(e) == DOMAIN e.chunks = 0..(e.total - 1)

\* The slices present from sequence index i on, in sequence order.
RECURSIVE Concat(_, _, _)
Concat(chunks, i, total) ==
    IF i >= total THEN <<>>
    ELSE (IF i \in DOMAIN chunks THEN chunks[i] ELSE <<>>) \o Concat(chunks, i + 1, total)

Reassemble(e) == Concat(e.chunks, 0, e.total)

\* delete(m, k) on a map
Remove(f, k) == [x \in DOMAIN f \ {k} |-> f[x]]

\* The reader receives one datagram, whichever arrives next: a datagram
\* without the magic number is a whole payload and is delivered; a chunk is
\* stored under (message id, sequence), and when all chunks of its message
\* are there the payload is put together, the entry removed and the payload
\* delivered.  A datagram that is never received is lost.
ReadDatagram ==
    /\ \E d \in net :
           /\ net' = net \ {d}
           /\ IF ~IsChunk(d)
              THEN /\ delivered' = delivered (+) SetToBag({d})
                   /\ UNCHANGED table
              ELSE LET id == d[Len(magic) + 1]
                       seq == d[Len(magic) + 2]
                       total == d[Len(magic) + 3]
                       old == IF id \in DOMAIN table THEN table[id]
                              ELSE [chunks |-> <<>>, total |-> total, age |-> 0]
                       e == [old EXCEPT !.chunks = Put(@, seq, SubSeq(d, HeaderLen + 1, Len(d)))]
                   IN  IF Complete(e)
                       THEN /\ delivered' = delivered (+) SetToBag({Reassemble(e)})
                            /\ table' = Remove(table, id)
                       ELSE /\ table' = Put(table, id, e)
                            /\ UNCHANGED delivered
    /\ UNCHANGED <<now, hookVars, poolVars, walkVars, udpWrites, evicted>>

\* The entry is never old enough to be swept.
ExpiredNever(e) == FALSE

\* The entry is older than the reassembly timeout.
Expired(e) == e.age > reassemblyTimeout

\* The reader's clock advances: every pending entry is one tick older (an
\* age beyond the timeout is not counted further).
ClockTick ==
    /\ \E id \in DOMAIN table : table[id].age <= reassemblyTimeout
    /\ table' = [id \in DOMAIN table |->
                    [table[id] EXCEPT !.age = Min(@ + 1, reassemblyTimeout + 1)]]
    /\ UNCHANGED <<now, hookVars, poolVars, walkVars, udpWrites, net, delivered, evicted>>

\* The background sweep removes the entries older than the timeout.
Sweep ==
    LET old == {id \in DOMAIN table : Expired(table[id])}
    IN  /\ old # {}
        /\ table' = [id \in DOMAIN table \ old |-> table[id]]
        /\ evicted' = evicted \cup old
        /\ UNCHANGED <<now, hookVars, poolVars, walkVars, udpWrites, net, delivered>>

InitUdp ==
    /\ NewPool(defaultCompression, defaultCompressionLevel)
    /\ NoTraffic
    /\ NoExtraction
    /\ InitHook({DefaultOptions}, {"writer"}, {[g \in Goroutines |-> DefaultFields]})
    /\ blacklist = {}
    /\ synchronous = TRUE
    /\ wg = 0
    /\ wpc = "none"

NextUdp ==
    \/ WriteMessage
    \/ ReadDatagram
    \/ ClockTick
    \/ Sweep

SpecUdp == InitUdp /\ [][NextUdp]_vars

\* The reader's clock and its sweep keep running; the network may hold a
\* datagram back for ever.
FairSpecUdp == SpecUdp /\ WF_vars(ClockTick) /\ WF_vars(Sweep)

\* The least number of chunks of chunkPayloadSize bytes that hold n bytes.
Needed(n) == CHOOSE m \in 0..n : m * chunkPayloadSize >= n /\ (m - 1) * chunkPayloadSize < n

\* The bytes after the header of the datagrams from the i-th on.
RECURSIVE Bodies(_, _)
Bodies(ds, i) ==
    IF i > Len(ds) THEN <<>> ELSE SubSeq(ds[i], HeaderLen + 1, Len(ds[i])) \o Bodies(ds, i + 1)

\* All datagrams of the write w have reached the reader.
Arrived(w) == \A i \in 1..Len(w.datagrams) : w.datagrams[i] \notin net

\* C24: a message that needs N > 1 chunks is sent as exactly N datagrams
\* with the magic number, one message id and total N, their sequence indices
\* 0..N-1 in increasing order; once the reader has them all, in whatever
\* order and between the chunks of other messages, and swept none, it has
\* delivered the original payload exactly once; and nothing is delivered
\* that was not written.
C24_ChunksReassembleInAnyOrder ==
    /\ \A k \in 1..Len(udpWrites) :
           LET w == udpWrites[k]
               n == Needed(Len(w.payload))
           IN  n > 1 /\ w.err = "nil" =>
                   /\ Len(w.datagrams) = n
                   /\ \A i \in 1..n :
                          /\ SubSeq(w.datagrams[i], 1, Len(magic)) = magic
                          /\ w.datagrams[i][Len(magic) + 1] = w.id
                          /\ w.datagrams[i][Len(magic) + 2] = i - 1
                          /\ w.datagrams[i][Len(magic) + 3] = n
                   /\ \A j \in 1..Len(udpWrites) : j # k => udpWrites[j].id # w.id
                   /\ CopiesIn(w.payload, delivered) <= 1
                   /\ Arrived(w) /\ w.id \notin evicted => CopiesIn(w.payload, delivered) = 1
    /\ \A p \in BagToSet(delivered) :
           \E k \in 1..Len(udpWrites) : udpWrites[k].payload = p

\* A message of three chunks was delivered while the entry of another
\* message holds its second chunk and not yet its first.
C24_Witness ==
    \E k \in 1..Len(udpWrites) :
        /\ Len(udpWrites[k].datagrams) = 3
        /\ CopiesIn(udpWrites[k].payload, delivered) = 1
        /\ \E id \in DOMAIN table : DOMAIN table[id].chunks = {1}

\* The payload of the message that was sent with the id.
PayloadOf(id) ==
    udpWrites[CHOOSE k \in 1..Len(udpWrites) : udpWrites[k].id = id].payload

\* C25: an entry leaves the reassembly table only when its last missing
\* chunk arrives, and its payload is then delivered, once, or when the sweep
\* finds it older than the timeout, and then nothing is delivered or
\* reported; no complete entry stays in the table, a swept message is never
\* delivered, and every entry leaves the table eventually.
C25_PendingEntriesArePurged ==
    /\ [](\A id \in DOMAIN table : ~Complete(table[id]))
    /\ [][\A id \in DOMAIN table :
              id \notin DOMAIN table' =>
                  \/ /\ delivered' = delivered (+) SetToBag({PayloadOf(id)})
                     /\ CopiesIn(PayloadOf(id), delivered) = 0
                     /\ evicted' = evicted
                  \/ /\ table[id].age > reassemblyTimeout
                     /\ delivered' = delivered
                     /\ id \in evicted']_vars
    /\ [](\A id \in evicted : CopiesIn(PayloadOf(id), delivered) = 0)
    /\ \A id \in MessageIds : []<>(id \notin DOMAIN table)

\* The entry of one message was swept and the message not delivered, and
\* the chunks of another message were put together and delivered.
C25_Witness ==
    /\ table = <<>>
    /\ \E id \in evicted : CopiesIn(PayloadOf(id), delivered) = 0
    /\ \E k \in 1..Len(udpWrites) :
           /\ Len(udpWrites[k].datagrams) > 1
           /\ CopiesIn(udpWrites[k].payload, delivered) = 1

\* C26: a payload no longer than the threshold is sent as one datagram that
\* is the payload itself; a longer one is sent as ceil(length /
\* chunkPayloadSize) chunks whose slices put end to end are the payload, or,
\* when that count is above the maximum, is refused with an error and not
\* sent at all; the network holds no datagram but those.
C26_WriterNeverTruncates ==
    /\ \A k \in 1..Len(udpWrites) :
           LET w == udpWrites[k]
               n == Needed(Len(w.payload))
           IN  IF Len(w.payload) <= chunkThreshold
               THEN w.err = "nil" /\ w.datagrams = <<w.payload>>
               ELSE IF n > maxChunkCount
               THEN w.err # "nil" /\ w.datagrams = <<>>
               ELSE /\ w.err = "nil"
                    /\ Len(w.datagrams) = n
                    /\ Bodies(w.datagrams, 1) = w.payload
    /\ \A d \in net :
           \E k \in 1..Len(udpWrites) :
               \E i \in 1..Len(udpWrites[k].datagrams) : udpWrites[k].datagrams[i] = d

\* One message was refused as too large and nothing of it is on the
\* network, another went out in the maximum number of chunks.
C26_Witness ==
    /\ \E k \in 1..Len(udpWrites) :
           /\ udpWrites[k].err # "nil"
           /\ \A d \in net : \A i \in 1..Len(d) : d[i] \notin {udpWrites[k].payload[j] :
                                                                j \in 1..Len(udpWrites[k].payload)}
    /\ \E k \in 1..Len(udpWrites) :
           /\ Len(udpWrites[k].datagrams) = maxChunkCount
           /\ \A i \in 1..maxChunkCount : udpWrites[k].datagrams[i] \in net

\* ------------------------------------------------ close in a quiet hook
\* C31: when Flush executes close(hook.buf), no Fire call is between its
\* RLock and its RUnlock, the WaitGroup counter is zero and the queue is
\* empty; on an asynchronous hook the counter is always the number of
\* entries Fire has counted and the worker has not finished, and it is
\* never negative.
C31_CloseWhenQuiescent ==
    /\ [][\A g \in Goroutines :
              pc[g] = "fclose" /\ pc'[g] # "fclose" =>
                  /\ mu.readers = 0
                  /\ \A h \in Goroutines : pc[h] \notin {"built", "send", "unlock"}
                  /\ wg = 0
                  /\ buf = <<>>
                  /\ wcur = NoEntry]_vars
    /\ [](wg >= 0)
    /\ [](~synchronous => wg = Cardinality(Counted) - Cardinality(Finished))

\* Flush closed the queue of an asynchronous hook after two entries were
\* counted and finished, and a later Fire left the counter at one.
C31_Witness ==
    /\ ~synchronous
    /\ closed
    /\ Len(sent) >= 2
    /\ wg = 1
    /\ \E i \in 1..Len(calls) : calls[i].result = "panic"

\* ------------------------------------------------------ Flush called again
\* C32: Flush may be called more than once: no Flush call panics, and a
\* Flush that follows a finished one returns with the channel closed.
C32_FlushTwiceIsHarmless ==
    \A i \in 1..Len(flushes) :
        /\ flushes[i].state # "panic"
        /\ flushes[i].state = "returned" => closed

\* ------------------------------------------------- Get on a made pool
\* C33: on every pool newCompressionPool returned, whatever its type and
\* level, no Get call panics and every Get that returned handed out a writer.
C33_GetNeverPanics ==
    \A g \in Goroutines :
        /\ bpc[g] # "panicked"
        /\ bpc[g] \in {"using", "wrote"} => bw[g] # 0

\* ------------------------------------ the same entry rendered more than once
\* The Data maps of an entry logged again and again: an error with or
\* without a stack trace, alone or next to a field named "stacktrace".
RepeatFields ==
    {[k \in {ErrorKey} |-> v] : v \in {"errStack", "errPlain"}}
        \cup {[k \in {"stacktrace"} |-> "1"]}
        \cup {[k \in {ErrorKey, "stacktrace"} |-> IF k = ErrorKey THEN v ELSE "1"] :
                  v \in {"errStack", "errPlain"}}

InitRepeat ==
    \E isAsync \in BOOLEAN :
        NewGraylogHookEx(isAsync, ErrorOptions, {"writer"},
                         {[g \in Goroutines |-> IF g = 1 THEN d ELSE EmptyFields] :
                              d \in RepeatFields})

\* Goroutine 1 logs its entry several times from the same line; the hook is
\* not flushed.
NextRepeat ==
    \/ FireRLock(1, InfoLevel, <<"a">>)
    \/ FireSync(1)
    \/ FireAdd(1)
    \/ FireSend(1)
    \/ FireReturn(1)
    \/ fireOpen

SpecRepeat == InitRepeat /\ [][NextRepeat]_vars

\* C34: the Messages written for two events with the same fields, logged on
\* the same hook from the same call site, have the same Extra, File and Line.
C34_RenderIsDeterministic ==
    \A i, j \in 1..Len(written) :
        calls[written[i].id].data = calls[written[j].id].data =>
            /\ written[i].Extra = written[j].Extra
            /\ written[i].File = written[j].File
            /\ written[i].Line = written[j].Line

\* The same, for the entries that do not have both an error with a stack
\* trace and a field named "stacktrace".
RenderIsDeterministicWithoutClash ==
    \A i, j \in 1..Len(written) :
        LET data == calls[written[i].id].data
        IN  /\ data = calls[written[j].id].data
            /\ ~(/\ DOMAIN data = {ErrorKey, "stacktrace"}
                 /\ data[ErrorKey] = "errStack"
                 /\ ErrorKey \notin blacklist) =>
                /\ written[i].Extra = written[j].Extra
                /\ written[i].File = written[j].File
                /\ written[i].Line = written[j].Line

\* ------------------------------------------------- the time of a Message
MaxClock == 3

\* Time passes.
WallClockTick ==
    /\ now < MaxClock
    /\ now' = now + 1
    /\ UNCHANGED <<hookVars, poolVars, otherVars>>

InitClock ==
    \E isAsync \in BOOLEAN :
        NewGraylogHookEx(isAsync, {DefaultOptions}, {"writer"},
                         {[g \in Goroutines |-> DefaultFields]})

\* Goroutine 1 logs while the clock runs; the hook is not flushed.
NextClock ==
    \/ FireRLock(1, InfoLevel, <<"a">>)
    \/ FireSync(1)
    \/ FireAdd(1)
    \/ FireSend(1)
    \/ FireReturn(1)
    \/ fireOpen
    \/ WallClockTick

SpecClock == InitClock /\ [][NextClock]_vars

\* C35: the timestamp of every Message written is the time of its event,
\* entry.Time as Fire copied it, however long the entry waited.
C35_TimestampIsEventTime ==
    \A i \in 1..Len(written) :
        written[i].TimeUnix = TimeUnixOf(calls[written[i].id].time)

\* The timestamp of every Message written is the time sendEntry ran at: not
\* before the event and not after the present.
TimestampIsSendTime ==
    \A i \in 1..Len(written) :
        /\ written[i].TimeUnix >= TimeUnixOf(calls[written[i].id].time)
        /\ written[i].TimeUnix <= TimeUnixOf(now)

====
